---- MODULE Spec2Model ----
(***************************************************************************)
(* Feishu bot / Cursor CLI bridge (src/index.js): the task orchestration   *)
(* and streaming bridge.  One external process per request, its stdout     *)
(* parsed line by line, partial results throttled to a card update, one    *)
(* session per chat, /stop and a hard timeout.                             *)
(*                                                                         *)
(* Platform semantics the model relies on (Node.js child_process):        *)
(*  - child.kill(sig) delivers the signal only while the process handle    *)
(*    exists; on success it sets child.killed and returns true; once the   *)
(*    exit has been observed it returns false and leaves child.killed.     *)
(*    child.killed therefore means "a signal was sent", not "has exited".  *)
(*  - 'close' is emitted after the process exited and its stdio streams    *)
(*    ended; stdout data can still arrive between exit and close.          *)
(*  - timers never fire before their deadline; callbacks run to their      *)
(*    next await without interleaving.                                     *)
(*                                                                         *)
(* Time.  The code uses Date.now() only in differences (against            *)
(* lastStreamTime and lastActiveTime) and in timer delays, so the state    *)
(* holds those differences: the time since a stamp was taken and the time  *)
(* left on a timer.  Time passes in steps while the time since the last    *)
(* card update is below the interval, and otherwise up to the next timer   *)
(* that falls due.  clock is the observer's time since start, read by the  *)
(* properties only.                                                        *)
(***************************************************************************)
EXTENDS Integers, Sequences, FiniteSets, TLC

(***************************************************************************)
(* Bounds of the model and program constants                               *)
(***************************************************************************)
MaxTasks == 2           \* tasks (prompt messages) handled in one behaviour
MaxLines == 2           \* lines in the output of one process (SpecStream)
MaxBurst == 5           \* assistant records printed by one process (SpecThrottle)

STREAM_INTERVAL == 1500 \* src/index.js:237
STOP_GRACE == 1000      \* src/index.js:406
ConfigTimeout == 1200000 \* config.timeout, src/index.js:33

Channels == {"c1"}

(***************************************************************************)
(* Bytes on the process's stdout.  A byte sequence is a sequence of        *)
(* tokens <<key, value>>: the braces of a JSON object, its fields, the     *)
(* newline, and text that is not JSON.  A field value "" stands for a      *)
(* falsy value (absent, empty string, 0): the code only tests truthiness.  *)
(***************************************************************************)
LB == <<"{", "">>
RB == <<"}", "">>
NL == <<"\n", "">>
JUNK == <<"junk", "">>

JsonKeys == {"type", "text", "result", "timestamp_ms", "conversation_id", "session_id"}

\* JSON.stringify of one record, one line of stream-json output
Encode(fields) == <<LB>> \o fields \o <<RB, NL>>

RECURSIVE LastValue(_, _)
\* the value of key k in an object literal: the last occurrence wins
LastValue(fields, k) ==
  IF fields = <<>> THEN ""
  ELSE IF fields[Len(fields)][1] = k THEN fields[Len(fields)][2]
       ELSE LastValue(SubSeq(fields, 1, Len(fields) - 1), k)

\* JSON.parse(line): succeeds on a complete object only, throws otherwise
JSONParse(line) ==
  LET n == Len(line)
      wellFormed == /\ n >= 2
                    /\ line[1] = LB
                    /\ line[n] = RB
                    /\ \A i \in 2..(n - 1) : line[i][1] \in JsonKeys
      inner == IF wellFormed THEN SubSeq(line, 2, n - 1) ELSE <<>>
  IN [ok |-> wellFormed, json |-> [k \in JsonKeys |-> LastValue(inner, k)]]

RECURSIVE SplitLines(_, _)
\* text.split('\n'): cur is the line being collected
SplitLines(bytes, cur) ==
  IF bytes = <<>> THEN <<cur>>
  ELSE IF Head(bytes) = NL THEN <<cur>> \o SplitLines(Tail(bytes), <<>>)
       ELSE SplitLines(Tail(bytes), Append(cur, Head(bytes)))

\* text.split('\n').filter(line => line.trim())
ChunkLines(chunk) == SelectSeq(SplitLines(chunk, <<>>), LAMBDA l : l # <<>>)

(***************************************************************************)
(* Output of the external process: the records the CLI prints              *)
(***************************************************************************)
SessionRec(id) == Encode(<< <<"session_id", id>> >>)
ConvRec(id) == Encode(<< <<"conversation_id", id>> >>)
DeltaRec(text) ==
  Encode(<< <<"type", "assistant">>, <<"text", text>>, <<"timestamp_ms", "1">> >>)
FullRec(text) == Encode(<< <<"type", "assistant">>, <<"text", text>> >>)
ResultRec(text) == Encode(<< <<"type", "result">>, <<"result", text>> >>)
NoiseLine == <<JUNK, NL>>

RECURSIVE Flatten(_)
Flatten(ss) == IF ss = <<>> THEN <<>> ELSE Head(ss) \o Flatten(Tail(ss))

(***************************************************************************)
(* State                                                                   *)
(***************************************************************************)
VARIABLES
  clock,          \* time since start, as the observer reads it
  tasks,          \* the prompt messages handled so far, each with its callCursorCLI closure
  activeTasks,    \* Map chatId -> registered child (the task's index)
  chatSessions,   \* Map chatId -> [conversationId, age], age = Date.now() - lastActiveTime
  lastStop,       \* what the most recent stopTask returned
  lastNew,        \* what the most recent /new reported, and the tasks of the chat launched by then
  sweepTimer,     \* time until the session sweep's interval fires next
  workDir,        \* the files below config.workDir: path -> entry
  processedMessages,   \* Set of message ids, each with the time left on its delete timer
  deliveries,          \* per message id: deliveries seen, deliveries processed, time since the last processed one
  currentActiveChatId, \* the chat the file API sends to
  lastApi              \* what the most recent POST /send-file did

vars == <<clock, tasks, activeTasks, chatSessions, lastStop, lastNew, sweepTimer, workDir,
          processedMessages, deliveries, currentActiveChatId, lastApi>>

\* the state outside the tasks and the two maps
\* the message cache with its observer, and the file API's observer
edge == <<processedMessages, deliveries, lastApi>>

others == <<lastNew, sweepTimer, workDir, currentActiveChatId, edge>>

SESSION_TTL == 10 * 60 * 60 * 1000
SWEEP_INTERVAL == 5 * 60 * 1000

Pending == [kind |-> "pending", value |-> ""]
NoTimer == [pending |-> FALSE, left |-> 0, text |-> ""]
\* setTimeout(f, delay)
SetTimer(delay, text) == [pending |-> TRUE, left |-> delay, text |-> text]
NoStop == [chan |-> "", stopped |-> FALSE, task |-> 0]
NoNew == [chan |-> "", cleared |-> FALSE, launched |-> 0]
NoApi == [task |-> 0, status |-> 0, chat |-> ""]
NoMark == [set |-> FALSE, flushed |-> 0, sunk |-> 0]
NoTerminal == [kind |-> "", text |-> ""]

TaskIds == 1..Len(tasks)

\* Map.delete(k)
Without(m, k) == [x \in (DOMAIN m) \ {k} |-> m[x]]
\* Map.set(k, v)
With(m, k, v) == [x \in (DOMAIN m) \cup {k} |-> IF x = k THEN v ELSE m[x]]

(***************************************************************************)
(* Session store                                                           *)
(***************************************************************************)
\* getSession without the expiry test
GetSessionNoExpiry(store, chatId) ==
  IF chatId \in DOMAIN store
  THEN [id |-> store[chatId].conversationId, store |-> [store EXCEPT ![chatId].age = 0]]
  ELSE [id |-> "", store |-> store]

\* getSession(chatId): the session returned ("" for null) and the store afterwards
GetSession(store, chatId) ==
  IF chatId \in DOMAIN store
  THEN IF store[chatId].age > SESSION_TTL
       THEN [id |-> "", store |-> Without(store, chatId)]
       ELSE [id |-> store[chatId].conversationId,
             store |-> [store EXCEPT ![chatId].age = 0]]
  ELSE [id |-> "", store |-> store]

\* a clear that empties the whole store
ClearSessionAll(store, chatId) ==
  IF chatId \in DOMAIN store
  THEN [cleared |-> TRUE, store |-> <<>>]
  ELSE [cleared |-> FALSE, store |-> store]

\* clearSession(chatId): what it returns and the store afterwards
ClearSession(store, chatId) ==
  IF chatId \in DOMAIN store
  THEN [cleared |-> TRUE, store |-> Without(store, chatId)]
  ELSE [cleared |-> FALSE, store |-> store]

\* a sweep that stops at the first expired session it deletes
SweepSessionsFirstOnly(store) ==
  LET expired == {x \in DOMAIN store : store[x].age > SESSION_TTL}
  IN IF expired = {} THEN store
     ELSE Without(store, CHOOSE x \in expired : TRUE)

\* the setInterval callback: expired sessions are deleted
SweepSessions(store) ==
  [c \in {x \in DOMAIN store : ~(store[x].age > SESSION_TTL)} |-> store[c]]

\* a save that keeps the id of a session the channel already has
SaveSessionKeepsId(store, chatId, conversationId) ==
  IF chatId \in DOMAIN store
  THEN [store EXCEPT ![chatId].age = 0]
  ELSE With(store, chatId, [conversationId |-> conversationId, age |-> 0])

\* saveSession(chatId, conversationId)
SaveSession(store, chatId, conversationId) ==
  With(store, chatId, [conversationId |-> conversationId, age |-> 0])

(***************************************************************************)
(* The work directory: path (names below config.workDir) -> entry          *)
(***************************************************************************)
\* the names a directory lists, in the order readdirSync returns them
NameOrder == <<".h", "a", "b", "c", "d", "e", "f", "node_modules">>
\* item.name.startsWith('.')
StartsWithDot(name) == name \in {".h"}

MAX_FILE_SIZE == 30 * 1024 * 1024
MAX_DEPTH == 3

\* kind: "file", "dir" or "link"; mode of a directory: "rx", "r" (listable, entries
\* not reachable) or "" (not listable)
DirEntry(mode) == [kind |-> "dir", mode |-> mode, size |-> 0, mtime |-> 0]
FileEntry(size, mtime) == [kind |-> "file", mode |-> "", size |-> size, mtime |-> mtime]
LinkEntry == [kind |-> "link", mode |-> "", size |-> 0, mtime |-> 0]

Parent(path) == SubSeq(path, 1, Len(path) - 1)
Ancestors(path) == {SubSeq(path, 1, k) : k \in 0..(Len(path) - 1)}

\* fs.statSync(path) succeeds: every directory on the way can be searched
CanStat(fs, path) == \A a \in Ancestors(path) : fs[a].mode = "rx"
\* fs.readdirSync(dir) succeeds
CanList(fs, dir) == fs[dir].mode \in {"rx", "r"} /\ CanStat(fs, dir)

\* fs.readdirSync(dir, { withFileTypes: true }): the names of the entries of dir
RECURSIVE ReadDir(_, _, _)
ReadDir(fs, dir, names) ==
  IF names = <<>> THEN <<>>
  ELSE (IF (dir \o <<Head(names)>>) \in DOMAIN fs THEN <<Head(names)>> ELSE <<>>)
       \o ReadDir(fs, dir, Tail(names))

\* scanDir without the depth limit
RECURSIVE ScanDirNoLimit(_, _, _)
RECURSIVE ScanItemsNoLimit(_, _, _, _)
ScanDirNoLimit(fs, dir, depth) ==
  IF ~CanList(fs, dir) THEN <<>>
  ELSE ScanItemsNoLimit(fs, dir, depth, ReadDir(fs, dir, NameOrder))

ScanItemsNoLimit(fs, dir, depth, items) ==
  IF items = <<>> THEN <<>>
  ELSE LET name == Head(items)
           fullPath == dir \o <<name>>
           here == IF StartsWithDot(name) \/ name = "node_modules" THEN <<>>
                   ELSE IF fs[fullPath].kind = "file"
                        THEN IF CanStat(fs, fullPath)
                             THEN << [path |-> fullPath, size |-> fs[fullPath].size,
                                      mtime |-> fs[fullPath].mtime] >>
                             ELSE <<>>
                        ELSE IF fs[fullPath].kind = "dir"
                             THEN ScanDirNoLimit(fs, fullPath, depth + 1)
                             ELSE <<>>
       IN here \o ScanItemsNoLimit(fs, dir, depth, Tail(items))

\* scanDir(dir, depth): the entries it adds to the snapshot, in order
RECURSIVE ScanDir(_, _, _)
RECURSIVE ScanItems(_, _, _, _)
ScanDir(fs, dir, depth) ==
  IF depth > MAX_DEPTH THEN <<>>
  ELSE IF ~CanList(fs, dir) THEN <<>>
  ELSE ScanItems(fs, dir, depth, ReadDir(fs, dir, NameOrder))

ScanItems(fs, dir, depth, items) ==
  IF items = <<>> THEN <<>>
  ELSE LET name == Head(items)
           fullPath == dir \o <<name>>
           here == IF StartsWithDot(name) \/ name = "node_modules" THEN <<>>
                   ELSE IF fs[fullPath].kind = "file"
                        THEN IF CanStat(fs, fullPath)
                             THEN << [path |-> fullPath, size |-> fs[fullPath].size,
                                      mtime |-> fs[fullPath].mtime] >>
                             ELSE <<>>
                        ELSE IF fs[fullPath].kind = "dir"
                             THEN ScanDir(fs, fullPath, depth + 1)
                             ELSE <<>>
       IN here \o ScanItems(fs, dir, depth, Tail(items))

GetFileSnapshotNoLimit(fs) == ScanDirNoLimit(fs, <<>>, 0)

\* getFileSnapshot(): the Map as the sequence of its entries in insertion order
GetFileSnapshot(fs) == ScanDir(fs, <<>>, 0)

\* snapshot.has(path)
Has(snapshot, path) == \E i \in 1..Len(snapshot) : snapshot[i].path = path
\* snapshot.get(path), for a path the snapshot has
Get(snapshot, path) == snapshot[CHOOSE i \in 1..Len(snapshot) : snapshot[i].path = path]

\* compareSnapshots(before, after), over the entries of after that are left
RECURSIVE CompareEntries(_, _)
CompareEntries(before, entries) ==
  IF entries = <<>> THEN [newFiles |-> <<>>, modifiedFiles |-> <<>>]
  ELSE LET afterInfo == Head(entries)
           rest == CompareEntries(before, Tail(entries))
           file == [path |-> afterInfo.path, size |-> afterInfo.size]
       IN IF ~Has(before, afterInfo.path)
          THEN [rest EXCEPT !.newFiles = <<file>> \o @]
          ELSE LET beforeInfo == Get(before, afterInfo.path)
               IN IF afterInfo.mtime > beforeInfo.mtime \/ afterInfo.size # beforeInfo.size
                  THEN [rest EXCEPT !.modifiedFiles = <<file>> \o @]
                  ELSE rest

CompareSnapshots(before, after) == CompareEntries(before, after)

\* the regular expression of handleMessage that finds a request to send files
WantsSendFile(prompt) == prompt \in {"send me the report"}

\* sendLocalFile without the size test
SendLocalFileAnySize(fs, path, uploadOk, sendOk) ==
  IF path \notin DOMAIN fs \/ ~CanStat(fs, path)
  THEN [ok |-> FALSE, error |-> "NOT_FOUND", upload |-> <<>>, message |-> <<>>]
  ELSE IF fs[path].kind # "file" \/ ~uploadOk
  THEN [ok |-> FALSE, error |-> "UPLOAD_FAILED",
        upload |-> IF fs[path].kind = "file" THEN <<[path |-> path, size |-> fs[path].size]>> ELSE <<>>,
        message |-> <<>>]
  ELSE IF ~sendOk
  THEN [ok |-> FALSE, error |-> "SEND_FAILED",
        upload |-> <<[path |-> path, size |-> fs[path].size]>>, message |-> <<>>]
  ELSE [ok |-> TRUE, error |-> "",
        upload |-> <<[path |-> path, size |-> fs[path].size]>>,
        message |-> <<[path |-> path, size |-> fs[path].size]>>]

\* sendLocalFile(chatId, path): whether it returned or threw, the upload it issued
\* (client.im.file.create) and the file message it sent
SendLocalFile(fs, path, uploadOk, sendOk) ==
  IF path \notin DOMAIN fs \/ ~CanStat(fs, path)
  THEN [ok |-> FALSE, error |-> "NOT_FOUND", upload |-> <<>>, message |-> <<>>]
  ELSE IF fs[path].size > MAX_FILE_SIZE
  THEN [ok |-> FALSE, error |-> "TOO_LARGE", upload |-> <<>>, message |-> <<>>]
  ELSE IF fs[path].kind # "file" \/ ~uploadOk
  THEN [ok |-> FALSE, error |-> "UPLOAD_FAILED",
        upload |-> IF fs[path].kind = "file" THEN <<[path |-> path, size |-> fs[path].size]>> ELSE <<>>,
        message |-> <<>>]
  ELSE IF ~sendOk
  THEN [ok |-> FALSE, error |-> "SEND_FAILED",
        upload |-> <<[path |-> path, size |-> fs[path].size]>>, message |-> <<>>]
  ELSE [ok |-> TRUE, error |-> "",
        upload |-> <<[path |-> path, size |-> fs[path].size]>>,
        message |-> <<[path |-> path, size |-> fs[path].size]>>]

(***************************************************************************)
(* One task: the handleMessage invocation of a prompt and the closure of   *)
(* its callCursorCLI call                                                  *)
(***************************************************************************)
NewTask(chatId) ==
  [chan |-> chatId,
   pc |-> "card",              \* handleMessage: "card" awaiting sendMarkdownCard, "await" awaiting callCursorCLI,
                               \* "send" in the loop over the new files, "done"
   prompt |-> "",
   beforeSnapshot |-> <<>>,
   afterSnapshot |-> <<>>,
   newFiles |-> <<>>,
   modifiedFiles |-> <<>>,
   successCount |-> 0,
   failedFiles |-> <<>>,
   resume |-> "",              \* the --resume argument ("" for none)
   proc |-> "none",            \* child: "none", "running", "exited" (close pending), "closed"
   output |-> <<>>,            \* bytes the process has still to write
   exitCode |-> "",
   killed |-> FALSE,           \* child.killed
   sigs |-> {},                \* signals delivered to the process
   wasKilled |-> FALSE,
   newConversationId |-> "",
   result |-> "",
   accumulatedText |-> "",
   sinceStream |-> STREAM_INTERVAL,  \* Date.now() - lastStreamTime, counted up to STREAM_INTERVAL (lastStreamTime = 0 at first)
   streamTimer |-> NoTimer,
   chain |-> <<>>,             \* streamUpdatePromise: deliveries issued and not completed, head in flight
   timeout |-> NoTimer,        \* the setTimeout of config.timeout
   grace |-> NoTimer,          \* the setTimeout of stopTask
   closeWait |-> FALSE,        \* close handler suspended at await streamUpdatePromise
   outcome |-> Pending,        \* the promise callCursorCLI returned
   \* observations
   received |-> <<>>,          \* the chunks the data handler was given
   decoded |-> <<>>,           \* the records JSON.parse returned
   pushed |-> <<>>,            \* throttledStream calls that passed its guard
   sunk |-> <<>>,              \* onStream invocations
   saved |-> "",               \* the id this task passed to saveSession
   ownExit |-> FALSE,          \* the process exited with no signal sent to it
   timedOut |-> FALSE,         \* the timeout timer fired while the process ran
   stopped |-> FALSE,          \* stopTask acted on this task
   flushed |-> <<>>,           \* the texts flushStream issued, in order
   sinkFailed |-> FALSE,       \* an onStream call was rejected
   firedRunning |-> FALSE,     \* the process was running when the timeout timer fired
   settleMark |-> NoMark,      \* the deliveries issued and begun when the promise settled
   stopMark |-> NoMark,        \* the deliveries issued and begun when stopTask returned
   terminal |-> NoTerminal,    \* what handleMessage did with the outcome
   uploads |-> <<>>,           \* the uploads issued (client.im.file.create)
   fileMessages |-> <<>>,      \* the file messages sent
   notice |-> "",              \* the message that closed the sending of files
   unsent |-> 0]               \* the number of files that message reports as not sent

\* a promise on which the last resolve or reject would win
SettleOverwrite(tk, kind, value) ==
  [tk EXCEPT !.outcome = [kind |-> kind, value |-> value],
             !.settleMark = [set |-> TRUE, flushed |-> Len(tk.flushed), sunk |-> Len(tk.sunk)]]

\* the promise settles once: a later resolve or reject is ignored
Settle(tk, kind, value) ==
  IF tk.outcome.kind = "pending"
  THEN [tk EXCEPT !.outcome = [kind |-> kind, value |-> value],
                  !.settleMark = [set |-> TRUE, flushed |-> Len(tk.flushed),
                                  sunk |-> Len(tk.sunk)]]
  ELSE tk

(***************************************************************************)
(* Throttled delivery to the card                                          *)
(***************************************************************************)
\* flushStream(text); onStream is called at once when no delivery is in flight
FlushStream(tk, text, t) ==
  IF text # ""
  THEN [tk EXCEPT !.chain = Append(@, text),
                  !.flushed = Append(@, text),
                  !.sunk = IF tk.chain = <<>> THEN Append(@, [text |-> text, at |-> t]) ELSE @,
                  !.sinceStream = 0]
  ELSE tk

\* throttledStream without the interval test: every text is flushed at once
ThrottledStreamEager(tk, text, t) ==
  IF text = "" THEN tk
  ELSE FlushStream([tk EXCEPT !.streamTimer = NoTimer,
                              !.pushed = Append(@, [text |-> text, at |-> t])], text, t)

\* throttledStream(text)
ThrottledStream(tk, text, t) ==
  IF text = "" THEN tk
  ELSE LET cleared == [tk EXCEPT !.streamTimer = NoTimer,
                                 !.pushed = Append(@, [text |-> text, at |-> t])]
       IN IF tk.sinceStream >= STREAM_INTERVAL
          THEN FlushStream(cleared, text, t)
          ELSE [cleared EXCEPT !.streamTimer =
                  SetTimer(STREAM_INTERVAL - tk.sinceStream, text)]

(***************************************************************************)
(* The stdout data handler                                                 *)
(***************************************************************************)
\* the try block with every assistant text appended, delta-marked or not
HandleRecordAppend(tk, json, t) ==
  LET s1 == IF json["conversation_id"] # ""
            THEN [tk EXCEPT !.newConversationId = json["conversation_id"]] ELSE tk
      s2 == IF s1.newConversationId = "" /\ json["session_id"] # ""
            THEN [s1 EXCEPT !.newConversationId = json["session_id"]] ELSE s1
      s3 == IF json["type"] = "result" /\ json["result"] # ""
            THEN [s2 EXCEPT !.result = json["result"]] ELSE s2
  IN IF json["type"] = "assistant" /\ json["text"] # ""
     THEN LET s4 == [s3 EXCEPT !.accumulatedText = @ \o json["text"]]
          IN ThrottledStream(s4, s4.accumulatedText, t)
     ELSE s3

\* a record handler in which any identifier replaces the one held
HandleRecordLastId(tk, json, t) ==
  LET s1 == IF json["conversation_id"] # ""
            THEN [tk EXCEPT !.newConversationId = json["conversation_id"]] ELSE tk
      s2 == IF json["conversation_id"] = "" /\ json["session_id"] # ""
            THEN [s1 EXCEPT !.newConversationId = json["session_id"]] ELSE s1
      s3 == IF json["type"] = "result" /\ json["result"] # ""
            THEN [s2 EXCEPT !.result = json["result"]] ELSE s2
  IN IF json["type"] = "assistant" /\ json["text"] # ""
     THEN LET s4 == IF json["timestamp_ms"] # ""
                    THEN [s3 EXCEPT !.accumulatedText = @ \o json["text"]]
                    ELSE [s3 EXCEPT !.accumulatedText = json["text"]]
          IN ThrottledStream(s4, s4.accumulatedText, t)
     ELSE s3

\* the body of the try block for one decoded record
HandleRecord(tk, json, t) ==
  LET s1 == IF json["conversation_id"] # ""
            THEN [tk EXCEPT !.newConversationId = json["conversation_id"]] ELSE tk
      s2 == IF s1.newConversationId = "" /\ json["session_id"] # ""
            THEN [s1 EXCEPT !.newConversationId = json["session_id"]] ELSE s1
      s3 == IF json["type"] = "result" /\ json["result"] # ""
            THEN [s2 EXCEPT !.result = json["result"]] ELSE s2
  IN IF json["type"] = "assistant" /\ json["text"] # ""
     THEN LET s4 == IF json["timestamp_ms"] # ""
                    THEN [s3 EXCEPT !.accumulatedText = @ \o json["text"]]
                    ELSE [s3 EXCEPT !.accumulatedText = json["text"]]
          IN ThrottledStream(s4, s4.accumulatedText, t)
     ELSE s3

\* one iteration of the loop over the lines: try { JSON.parse ... } catch {}
HandleLine(tk, line, t) ==
  LET p == JSONParse(line)
  IN IF p.ok
     THEN HandleRecord([tk EXCEPT !.decoded = Append(@, p.json)], p.json, t)
     ELSE tk

RECURSIVE HandleLinesAbort(_, _, _)
\* the loop with the try around it instead of inside it: a line that throws ends the loop
HandleLinesAbort(tk, lines, t) ==
  IF lines = <<>> THEN tk
  ELSE IF JSONParse(Head(lines)).ok
       THEN HandleLinesAbort(HandleLine(tk, Head(lines), t), Tail(lines), t)
       ELSE tk

RECURSIVE HandleLines(_, _, _)
\* for (const line of lines)
HandleLines(tk, lines, t) ==
  IF lines = <<>> THEN tk
  ELSE HandleLines(HandleLine(tk, Head(lines), t), Tail(lines), t)

\* child.stdout.on('data', ...)
OnData(tk, chunk, t) ==
  HandleLines([tk EXCEPT !.received = Append(@, chunk)], ChunkLines(chunk), t)

(***************************************************************************)
(* Process control                                                         *)
(***************************************************************************)
\* child.kill(sig)
Kill(tk, sig) ==
  IF tk.proc = "running"
  THEN [tk EXCEPT !.sigs = @ \cup {sig}, !.killed = TRUE]
  ELSE tk

\* a cleanupTask that empties the map
CleanupTaskAll(map, chatId) == [x \in {} |-> 0]

\* cleanupTask(): activeTasks.delete(chatId)
CleanupTask(map, chatId) == Without(map, chatId)

STOPPED_BY_USER == "STOPPED_BY_USER"
TIMEOUT_MESSAGE == "TIMEOUT"      \* '命令执行超时（20分钟）'
TASK_DONE == "TASK_DONE"          \* '任务完成'
ExitMessage(code) == "EXIT_" \o code   \* `命令退出码: ${code}`

\* the close handler with the session saved before wasKilled is tested
AfterDrainSaveFirst(tk, store) ==
  LET save == tk.newConversationId # ""
      s1 == IF save THEN [tk EXCEPT !.saved = tk.newConversationId] ELSE tk
      finalResult == IF tk.result # "" THEN tk.result ELSE tk.accumulatedText
  IN [task |-> IF tk.wasKilled THEN Settle(s1, "reject", STOPPED_BY_USER)
               ELSE IF finalResult # "" THEN Settle(s1, "resolve", finalResult)
               ELSE IF tk.exitCode = "0" THEN Settle(s1, "resolve", TASK_DONE)
               ELSE Settle(s1, "reject", ExitMessage(tk.exitCode)),
      store |-> IF save THEN SaveSession(store, tk.chan, tk.newConversationId) ELSE store]

\* the close handler with finalResult = accumulatedText || result
AfterDrainTextFirst(tk, store) ==
  IF tk.wasKilled
  THEN [task |-> Settle(tk, "reject", STOPPED_BY_USER), store |-> store]
  ELSE LET save == tk.newConversationId # ""
           s1 == IF save THEN [tk EXCEPT !.saved = tk.newConversationId] ELSE tk
           finalResult == IF tk.accumulatedText # "" THEN tk.accumulatedText ELSE tk.result
       IN [task |-> IF finalResult # "" THEN Settle(s1, "resolve", finalResult)
                    ELSE IF tk.exitCode = "0" THEN Settle(s1, "resolve", TASK_DONE)
                    ELSE Settle(s1, "reject", ExitMessage(tk.exitCode)),
           store |-> IF save THEN SaveSession(store, tk.chan, tk.newConversationId)
                     ELSE store]

\* the close handler after await streamUpdatePromise: the task and the session store
AfterDrain(tk, store) ==
  IF tk.wasKilled
  THEN [task |-> Settle(tk, "reject", STOPPED_BY_USER), store |-> store]
  ELSE LET save == tk.newConversationId # ""
           s1 == IF save THEN [tk EXCEPT !.saved = tk.newConversationId] ELSE tk
           finalResult == IF tk.result # "" THEN tk.result ELSE tk.accumulatedText
       IN [task |-> IF finalResult # "" THEN Settle(s1, "resolve", finalResult)
                    ELSE IF tk.exitCode = "0" THEN Settle(s1, "resolve", TASK_DONE)
                    ELSE Settle(s1, "reject", ExitMessage(tk.exitCode)),
           store |-> IF save THEN SaveSession(store, tk.chan, tk.newConversationId)
                     ELSE store]

(***************************************************************************)
(* Time                                                                    *)
(***************************************************************************)
\* a timer whose delay has passed
Due(timer) == timer.pending /\ timer.left = 0

Min(a, b) == IF a < b THEN a ELSE b

\* d of time passing on a timer
Run(timer, d) == IF timer.pending THEN [timer EXCEPT !.left = @ - Min(@, d)] ELSE timer

\* the task after d of time
Later(tk, d) ==
  [tk EXCEPT !.sinceStream = Min(@ + d, STREAM_INTERVAL),
             !.streamTimer = Run(@, d),
             !.timeout = Run(@, d),
             !.grace = Run(@, d)]

\* the times left on the pending timers
TimersLeft(tks) ==
  UNION { {tks[t].streamTimer.left : x \in {1} \cap {IF tks[t].streamTimer.pending THEN 1 ELSE 0}}
          \cup {tks[t].timeout.left : x \in {1} \cap {IF tks[t].timeout.pending THEN 1 ELSE 0}}
          \cup {tks[t].grace.left : x \in {1} \cap {IF tks[t].grace.pending THEN 1 ELSE 0}}
          : t \in DOMAIN tks }

\* the time until the next timer falls due (0: no timer is pending)
NextDue(tks) ==
  IF TimersLeft(tks) = {} THEN 0
  ELSE CHOOSE m \in TimersLeft(tks) : \A x \in TimersLeft(tks) : m <= x

(***************************************************************************)
(* Actions                                                                 *)
(***************************************************************************)
\* handleMessage, a prompt: up to await sendMarkdownCard
HandleMessage(chatId, prompt, limit) ==
  /\ Len(tasks) < limit
  /\ chatSessions' = GetSession(chatSessions, chatId).store
  /\ tasks' = Append(tasks, [NewTask(chatId) EXCEPT !.prompt = prompt])
  /\ UNCHANGED <<clock, activeTasks, lastStop, others>>

\* a launch that never passes --resume
CallCursorCLINoResume(t, out) ==
  /\ t \in TaskIds
  /\ tasks[t].pc = "card"
  /\ LET tk == tasks[t]
         g == GetSession(chatSessions, tk.chan)
     IN /\ chatSessions' = g.store
        /\ activeTasks' = With(activeTasks, tk.chan, t)
        /\ tasks' = [tasks EXCEPT ![t] =
                       [tk EXCEPT !.pc = "await",
                                  !.beforeSnapshot = GetFileSnapshot(workDir),
                                  !.proc = "running",
                                  !.output = out,
                                  !.timeout = SetTimer(ConfigTimeout, "")]]
  /\ currentActiveChatId' = tasks[t].chan
  /\ UNCHANGED <<clock, lastStop, lastNew, sweepTimer, workDir, edge>>

\* handleMessage after the card was sent: callCursorCLI up to the return of its promise;
\* out is what the spawned process is going to print
CallCursorCLI(t, out) ==
  /\ t \in TaskIds
  /\ tasks[t].pc = "card"
  /\ LET tk == tasks[t]
         g == GetSession(chatSessions, tk.chan)
     IN /\ chatSessions' = g.store
        /\ activeTasks' = With(activeTasks, tk.chan, t)
        /\ tasks' = [tasks EXCEPT ![t] =
                       [tk EXCEPT !.pc = "await",
                                  !.beforeSnapshot = GetFileSnapshot(workDir),
                                  !.resume = g.id,
                                  !.proc = "running",
                                  !.output = out,
                                  !.timeout = SetTimer(ConfigTimeout, "")]]
  /\ currentActiveChatId' = tasks[t].chan
  /\ UNCHANGED <<clock, lastStop, lastNew, sweepTimer, workDir, edge>>

SPAWN_ERROR == "SPAWN_ERROR"
\* the code the close event carries after a failed spawn (a negative errno)
SPAWN_CODE == "-2"

\* a failed spawn whose error handler leaves the entry in activeTasks
SpawnErrorKeepsEntry(t) ==
  /\ t \in TaskIds
  /\ tasks[t].pc = "card"
  /\ LET tk == tasks[t]
         g == GetSession(chatSessions, tk.chan)
     IN /\ chatSessions' = g.store
        /\ activeTasks' = With(activeTasks, tk.chan, t)
        /\ tasks' = [tasks EXCEPT ![t] =
                       Settle([tk EXCEPT !.pc = "await",
                                         !.beforeSnapshot = GetFileSnapshot(workDir),
                                         !.resume = g.id,
                                         !.proc = "exited",
                                         !.exitCode = SPAWN_CODE,
                                         !.timeout = SetTimer(ConfigTimeout, "")],
                              "reject", SPAWN_ERROR)]
  /\ UNCHANGED <<clock, lastStop, others>>

\* callCursorCLI when the process cannot be started: spawn returns a child without a
\* process, the entry is registered and the timeout timer set, and the 'error' event
\* is emitted on the next tick, before any other event; 'close' follows later
SpawnError(t) ==
  /\ t \in TaskIds
  /\ tasks[t].pc = "card"
  /\ LET tk == tasks[t]
         g == GetSession(chatSessions, tk.chan)
     IN /\ chatSessions' = g.store
        /\ activeTasks' = CleanupTask(With(activeTasks, tk.chan, t), tk.chan)
        /\ tasks' = [tasks EXCEPT ![t] =
                       Settle([tk EXCEPT !.pc = "await",
                                         !.beforeSnapshot = GetFileSnapshot(workDir),
                                         !.resume = g.id,
                                         !.proc = "exited",
                                         !.exitCode = SPAWN_CODE,
                                         !.timeout = SetTimer(ConfigTimeout, "")],
                              "reject", SPAWN_ERROR)]
  /\ UNCHANGED <<clock, lastStop, others>>

\* a 'data' event of child.stdout carrying the next n bytes
Stdout(t, n) ==
  /\ t \in TaskIds
  /\ tasks[t].proc \in {"running", "exited"}
  /\ n \in 1..Len(tasks[t].output)
  /\ LET tk == tasks[t]
         chunk == SubSeq(tk.output, 1, n)
         rest == SubSeq(tk.output, n + 1, Len(tk.output))
     IN tasks' = [tasks EXCEPT ![t] = OnData([tk EXCEPT !.output = rest], chunk, clock)]
  /\ UNCHANGED <<clock, activeTasks, chatSessions, lastStop, others>>

\* the process exits: by itself with a code, or by a signal (code null)
ProcExit(t, code) ==
  /\ t \in TaskIds
  /\ tasks[t].proc = "running"
  /\ code = "null" => tasks[t].sigs # {}
  /\ tasks' = [tasks EXCEPT ![t] =
                 [@ EXCEPT !.proc = "exited",
                           !.exitCode = code,
                           !.ownExit = (tasks[t].sigs = {})]]
  /\ UNCHANGED <<clock, activeTasks, chatSessions, lastStop, others>>

\* the close handler without await streamUpdatePromise
ProcCloseNoWait(t) ==
  /\ t \in TaskIds
  /\ tasks[t].proc = "exited"
  /\ LET tk == [tasks[t] EXCEPT !.proc = "closed", !.output = <<>>, !.streamTimer = NoTimer]
         fin == AfterDrain(tk, chatSessions)
     IN /\ activeTasks' = CleanupTask(activeTasks, tk.chan)
        /\ tasks' = [tasks EXCEPT ![t] = fin.task]
        /\ chatSessions' = fin.store
  /\ UNCHANGED <<clock, lastStop, others>>

\* the close handler without clearTimeout(streamTimer)
ProcCloseKeepsTimer(t) ==
  /\ t \in TaskIds
  /\ tasks[t].proc = "exited"
  /\ LET tk == [tasks[t] EXCEPT !.proc = "closed", !.output = <<>>]
         fin == AfterDrain(tk, chatSessions)
     IN /\ activeTasks' = CleanupTask(activeTasks, tk.chan)
        /\ IF tk.chain = <<>>
           THEN /\ tasks' = [tasks EXCEPT ![t] = fin.task]
                /\ chatSessions' = fin.store
           ELSE /\ tasks' = [tasks EXCEPT ![t] = [tk EXCEPT !.closeWait = TRUE]]
                /\ UNCHANGED chatSessions
  /\ UNCHANGED <<clock, lastStop, others>>

\* child.on('close', ...): up to await streamUpdatePromise, and beyond it when nothing is in flight
ProcClose(t) ==
  /\ t \in TaskIds
  /\ tasks[t].proc = "exited"
  /\ LET tk == [tasks[t] EXCEPT !.proc = "closed", !.output = <<>>, !.streamTimer = NoTimer]
         fin == AfterDrain(tk, chatSessions)
     IN /\ activeTasks' = CleanupTask(activeTasks, tk.chan)
        /\ IF tk.chain = <<>>
           THEN /\ tasks' = [tasks EXCEPT ![t] = fin.task]
                /\ chatSessions' = fin.store
           ELSE /\ tasks' = [tasks EXCEPT ![t] = [tk EXCEPT !.closeWait = TRUE]]
                /\ UNCHANGED chatSessions
  /\ UNCHANGED <<clock, lastStop, others>>

\* .then(() => onStream(text)).catch(() => {}) without the catch: a rejection
\* skips the deliveries chained after it
ChainAfterUncaught(chain, ok) == IF ok THEN Tail(chain) ELSE <<>>

\* streamUpdatePromise once the call in flight has completed (ok) or failed:
\* .then(() => onStream(text)).catch(() => {})
ChainAfter(chain, ok) == Tail(chain)

\* the sink call in flight completes (ok) or is rejected; the next issued delivery
\* begins; a close handler waiting for the chain resumes
SinkComplete(t, ok) ==
  /\ t \in TaskIds
  /\ tasks[t].chain # <<>>
  /\ LET tk == tasks[t]
         rest == ChainAfter(tk.chain, ok)
         s1 == [tk EXCEPT !.chain = rest,
                          !.sinkFailed = @ \/ ~ok,
                          !.sunk = IF rest # <<>>
                                   THEN Append(@, [text |-> Head(rest), at |-> clock])
                                   ELSE @]
         fin == AfterDrain([s1 EXCEPT !.closeWait = FALSE], chatSessions)
     IN IF tk.closeWait /\ rest = <<>>
        THEN /\ tasks' = [tasks EXCEPT ![t] = fin.task]
             /\ chatSessions' = fin.store
        ELSE /\ tasks' = [tasks EXCEPT ![t] = s1]
             /\ UNCHANGED chatSessions
  /\ UNCHANGED <<clock, activeTasks, lastStop, others>>

\* a catch block that reports every rejection
FinishReportsStop(t) ==
  /\ t \in TaskIds
  /\ tasks[t].pc = "await"
  /\ tasks[t].outcome.kind = "reject"
  /\ tasks' = [tasks EXCEPT ![t] =
                 [@ EXCEPT !.pc = "done",
                           !.terminal = [kind |-> "error", text |-> tasks[t].outcome.value]]]
  /\ UNCHANGED <<clock, activeTasks, chatSessions, lastStop, others>>

\* handleMessage after await callCursorCLI: the final card update, or the catch block
Finish(t) ==
  /\ t \in TaskIds
  /\ tasks[t].pc = "await"
  /\ tasks[t].outcome.kind # "pending"
  /\ LET o == tasks[t].outcome
         done == IF o.kind = "resolve" THEN [kind |-> "card", text |-> o.value]
                 ELSE IF o.value = STOPPED_BY_USER THEN [kind |-> "none", text |-> ""]
                 ELSE [kind |-> "error", text |-> o.value]
         afterSnapshot == GetFileSnapshot(workDir)
         diff == CompareSnapshots(tasks[t].beforeSnapshot, afterSnapshot)
         sending == diff.newFiles # <<>> /\ WantsSendFile(tasks[t].prompt)
     IN tasks' = [tasks EXCEPT ![t] =
                    IF o.kind = "resolve"
                    THEN [@ EXCEPT !.pc = IF sending THEN "send" ELSE "done",
                                   !.terminal = done,
                                   !.afterSnapshot = afterSnapshot,
                                   !.newFiles = diff.newFiles,
                                   !.modifiedFiles = diff.modifiedFiles,
                                   !.notice = IF diff.newFiles # <<>> /\ ~sending
                                              THEN "NEW_FILES" ELSE ""]
                    ELSE [@ EXCEPT !.pc = "done", !.terminal = done]]
  /\ UNCHANGED <<clock, activeTasks, chatSessions, lastStop, others>>

\* the files the loop of handleMessage sends: newFiles.slice(0, 5)
MAX_SEND == 5

\* a loop over all the new files
ToSendAll(tk) == tk.newFiles

ToSend(tk) == SubSeq(tk.newFiles, 1, Min(MAX_SEND, Len(tk.newFiles)))

\* handleMessage, one turn of the loop over the new files
SendNewFile(t, uploadOk, sendOk) ==
  /\ t \in TaskIds
  /\ tasks[t].pc = "send"
  /\ LET tk == tasks[t]
         i == tk.successCount + Len(tk.failedFiles) + 1
     IN /\ i <= Len(ToSend(tk))
        /\ LET file == ToSend(tk)[i]
               r == SendLocalFile(workDir, file.path, uploadOk, sendOk)
           IN tasks' = [tasks EXCEPT ![t] =
                          [tk EXCEPT !.successCount = IF r.ok THEN @ + 1 ELSE @,
                                     !.failedFiles = IF r.ok THEN @
                                                     ELSE Append(@, [name |-> file.path, error |-> r.error]),
                                     !.uploads = @ \o r.upload,
                                     !.fileMessages = @ \o r.message]]
  /\ UNCHANGED <<clock, activeTasks, chatSessions, lastStop, others>>

\* handleMessage after the loop: the message that tells how the sending went
SendNotice(t) ==
  /\ t \in TaskIds
  /\ tasks[t].pc = "send"
  /\ LET tk == tasks[t]
     IN /\ tk.successCount + Len(tk.failedFiles) = Len(ToSend(tk))
        /\ tasks' = [tasks EXCEPT ![t] =
                       [tk EXCEPT !.pc = "done",
                                  !.unsent = IF tk.successCount > 0 /\ Len(tk.newFiles) > MAX_SEND
                                             THEN Len(tk.newFiles) - MAX_SEND ELSE 0,
                                  !.notice = IF tk.successCount > 0
                                             THEN IF tk.failedFiles # <<>> THEN "SENT_SOME" ELSE "SENT"
                                             ELSE "SEND_FAILED"]]
  /\ UNCHANGED <<clock, activeTasks, chatSessions, lastStop, others>>

\* a program creates a directory below the work directory
Mkdir(path, mode) ==
  /\ path \notin DOMAIN workDir
  /\ Parent(path) \in DOMAIN workDir
  /\ workDir[Parent(path)].kind = "dir"
  /\ workDir' = With(workDir, path, DirEntry(mode))
  /\ UNCHANGED <<clock, tasks, activeTasks, chatSessions, lastStop, lastNew, sweepTimer, currentActiveChatId, edge>>

\* a program creates a symbolic link below the work directory
Symlink(path) ==
  /\ path \notin DOMAIN workDir
  /\ Parent(path) \in DOMAIN workDir
  /\ workDir[Parent(path)].kind = "dir"
  /\ workDir' = With(workDir, path, LinkEntry)
  /\ UNCHANGED <<clock, tasks, activeTasks, chatSessions, lastStop, lastNew, sweepTimer, currentActiveChatId, edge>>

\* a program writes a file below the work directory, new or in place of a file
WriteFile(path, size, mtime) ==
  /\ Parent(path) \in DOMAIN workDir
  /\ workDir[Parent(path)].kind = "dir"
  /\ path \in DOMAIN workDir => workDir[path].kind = "file" /\ workDir[path] # FileEntry(size, mtime)
  /\ workDir' = With(workDir, path, FileEntry(size, mtime))
  /\ UNCHANGED <<clock, tasks, activeTasks, chatSessions, lastStop, lastNew, sweepTimer, currentActiveChatId, edge>>

\* a program changes the permissions of a directory
Chmod(path, mode) ==
  /\ path \in DOMAIN workDir
  /\ workDir[path].kind = "dir"
  /\ workDir[path].mode # mode
  /\ workDir' = [workDir EXCEPT ![path].mode = mode]
  /\ UNCHANGED <<clock, tasks, activeTasks, chatSessions, lastStop, lastNew, sweepTimer, currentActiveChatId, edge>>

\* a program removes a file from the work directory
RemoveFile(path) ==
  /\ path \in DOMAIN workDir
  /\ workDir[path].kind = "file"
  /\ workDir' = Without(workDir, path)
  /\ UNCHANGED <<clock, tasks, activeTasks, chatSessions, lastStop, lastNew, sweepTimer, currentActiveChatId, edge>>

\* the pending streamTimer fires: flushStream(text)
StreamTimerFire(t) ==
  /\ t \in TaskIds
  /\ Due(tasks[t].streamTimer)
  /\ tasks' = [tasks EXCEPT ![t] =
                 FlushStream([@ EXCEPT !.streamTimer.pending = FALSE],
                             tasks[t].streamTimer.text, clock)]
  /\ UNCHANGED <<clock, activeTasks, chatSessions, lastStop, others>>

\* the timeout timer of callCursorCLI fires
TimeoutFire(t) ==
  /\ t \in TaskIds
  /\ Due(tasks[t].timeout)
  /\ LET tk == [tasks[t] EXCEPT !.timeout.pending = FALSE,
                                !.firedRunning = (tasks[t].proc = "running")]
     IN IF ~tk.killed
        THEN /\ tasks' = [tasks EXCEPT ![t] =
                            Settle([Kill(tk, "SIGTERM") EXCEPT
                                      !.timedOut = (tk.proc = "running")],
                                   "reject", TIMEOUT_MESSAGE)]
             /\ activeTasks' = CleanupTask(activeTasks, tk.chan)
        ELSE /\ tasks' = [tasks EXCEPT ![t] = tk]
             /\ UNCHANGED activeTasks
  /\ UNCHANGED <<clock, chatSessions, lastStop, others>>

\* stopTask without activeTasks.delete
StopTaskOnKeepsEntry(tks, map, chatId) ==
  IF chatId \in DOMAIN map
  THEN LET t == map[chatId]
           tk == Kill([tks[t] EXCEPT !.wasKilled = TRUE, !.stopped = TRUE], "SIGTERM")
       IN [tasks |-> [tks EXCEPT ![t] =
                        [tk EXCEPT !.grace = SetTimer(STOP_GRACE, ""),
                                   !.stopMark = [set |-> TRUE, flushed |-> Len(tk.flushed),
                                                 sunk |-> Len(tk.sunk)]]],
           map |-> map,
           ret |-> [chan |-> chatId, stopped |-> TRUE, task |-> t]]
  ELSE [tasks |-> tks, map |-> map,
        ret |-> [chan |-> chatId, stopped |-> FALSE, task |-> 0]]

\* stopTask(chatId): the tasks, the map and the value returned
StopTaskOn(tks, map, chatId) ==
  IF chatId \in DOMAIN map
  THEN LET t == map[chatId]
           tk == Kill([tks[t] EXCEPT !.wasKilled = TRUE, !.stopped = TRUE], "SIGTERM")
       IN [tasks |-> [tks EXCEPT ![t] =
                        [tk EXCEPT !.grace = SetTimer(STOP_GRACE, ""),
                                   !.stopMark = [set |-> TRUE, flushed |-> Len(tk.flushed),
                                                 sunk |-> Len(tk.sunk)]]],
           map |-> Without(map, chatId),
           ret |-> [chan |-> chatId, stopped |-> TRUE, task |-> t]]
  ELSE [tasks |-> tks, map |-> map,
        ret |-> [chan |-> chatId, stopped |-> FALSE, task |-> 0]]

\* handleMessage, /stop
StopTask(chatId) ==
  /\ LET r == StopTaskOn(tasks, activeTasks, chatId)
     IN /\ tasks' = r.tasks
        /\ activeTasks' = r.map
        /\ lastStop' = r.ret
  /\ UNCHANGED <<clock, chatSessions, others>>

\* the grace timer of stopTask fires
GraceFire(t) ==
  /\ t \in TaskIds
  /\ Due(tasks[t].grace)
  /\ LET tk == [tasks[t] EXCEPT !.grace.pending = FALSE]
     IN tasks' = [tasks EXCEPT ![t] = IF ~tk.killed THEN Kill(tk, "SIGKILL") ELSE tk]
  /\ UNCHANGED <<clock, activeTasks, chatSessions, lastStop, others>>

\* time passes by d: no timer is passed over (a due timer fires first); d is a step within
\* the interval after a card update, or the time to the next timer;
\* the observer's clock is kept up to the horizon (0: not kept)
Advance(d, horizon) ==
  /\ d > 0
  /\ \A x \in TimersLeft(tasks) : d <= x
  /\ IF horizon = 0
     THEN d = NextDue(tasks) \/ \E t \in TaskIds : tasks[t].sinceStream < STREAM_INTERVAL
     ELSE clock + d <= horizon
  /\ clock' = IF horizon = 0 THEN clock ELSE clock + d
  /\ tasks' = [t \in TaskIds |-> Later(tasks[t], d)]
  /\ chatSessions' = [c \in DOMAIN chatSessions |->
                        [chatSessions[c] EXCEPT !.age = Min(@ + d, SESSION_TTL + 1)]]
  /\ UNCHANGED <<activeTasks, lastStop, others>>

\* time passes by d while no timer of a task is pending
Idle(d) ==
  /\ d > 0
  /\ TimersLeft(tasks) = {}
  /\ tasks' = [t \in TaskIds |-> Later(tasks[t], d)]
  /\ chatSessions' = [c \in DOMAIN chatSessions |->
                        [chatSessions[c] EXCEPT !.age = Min(@ + d, SESSION_TTL + 1)]]
  /\ UNCHANGED <<clock, activeTasks, lastStop, others>>

\* handleMessage, /new
NewCommand(chatId) ==
  /\ LET r == ClearSession(chatSessions, chatId)
     IN /\ chatSessions' = r.store
        /\ lastNew' = [chan |-> chatId, cleared |-> r.cleared,
                       launched |-> Cardinality({t \in TaskIds : tasks[t].chan = chatId
                                                               /\ tasks[t].pc # "card"})]
  /\ UNCHANGED <<clock, tasks, activeTasks, lastStop, sweepTimer, workDir, currentActiveChatId, edge>>

\* the periodic sweep of the session store
Sweep ==
  /\ chatSessions' = SweepSessions(chatSessions)
  /\ chatSessions' # chatSessions
  /\ UNCHANGED <<clock, tasks, activeTasks, lastStop, others>>

\* a call of getSession(chatId) that finds a session
GetSessionCall(chatId) ==
  /\ chatId \in DOMAIN chatSessions
  /\ chatSessions' = GetSession(chatSessions, chatId).store
  /\ UNCHANGED <<clock, tasks, activeTasks, lastStop, others>>

\* a call of saveSession(chatId, conversationId)
SaveSessionCall(chatId, conversationId) ==
  /\ chatSessions' = SaveSession(chatSessions, chatId, conversationId)
  /\ UNCHANGED <<clock, tasks, activeTasks, lastStop, others>>

\* the session sweep's interval fires
SweepFire ==
  /\ sweepTimer = 0
  /\ chatSessions' = SweepSessions(chatSessions)
  /\ sweepTimer' = SWEEP_INTERVAL
  /\ UNCHANGED <<clock, tasks, activeTasks, lastStop, lastNew, workDir, currentActiveChatId, edge>>

\* time passes by d, at most up to the next timer of a task and up to the next sweep
\* that finds a session expired (a sweep that finds none changes nothing)
Pass(d) ==
  /\ d > 0
  /\ sweepTimer > 0
  /\ \A x \in TimersLeft(tasks) : d <= x
  /\ d <= sweepTimer \/ \A c \in DOMAIN chatSessions : chatSessions[c].age + d <= SESSION_TTL
  /\ sweepTimer' = IF d <= sweepTimer THEN sweepTimer - d
                   ELSE LET r == (d - sweepTimer) % SWEEP_INTERVAL
                        IN IF r = 0 THEN 0 ELSE SWEEP_INTERVAL - r
  /\ tasks' = [t \in TaskIds |-> Later(tasks[t], d)]
  /\ chatSessions' = [c \in DOMAIN chatSessions |->
                        [chatSessions[c] EXCEPT
                           !.age = Min(@ + d, SESSION_TTL + 2 * SWEEP_INTERVAL)]]
  /\ UNCHANGED <<clock, activeTasks, lastStop, lastNew, workDir, currentActiveChatId, edge>>

Init ==
  /\ clock = 0
  /\ tasks = <<>>
  /\ activeTasks = <<>>
  /\ chatSessions = <<>>
  /\ lastStop = NoStop
  /\ lastNew = NoNew
  /\ sweepTimer = SWEEP_INTERVAL
  /\ workDir = [path \in {<<>>} |-> DirEntry("rx")]
  /\ processedMessages = <<>>
  /\ deliveries = <<>>
  /\ currentActiveChatId = ""
  /\ lastApi = NoApi

ExitCodes == {"0", "1", "null"}

\* the positions after a newline: chunks that end on a line boundary
LineEnds(bytes) == {i \in 1..Len(bytes) : bytes[i] = NL}

(***************************************************************************)
(* Spec: concurrent tasks, /stop and the timeout on one chat               *)
(***************************************************************************)
OrchOutputs == { <<>>, SessionRec("s1") }

Next ==
  \/ \E c \in Channels : HandleMessage(c, "fix the bug", MaxTasks)
  \/ \E t \in TaskIds, out \in OrchOutputs : CallCursorCLI(t, out)
  \/ \E t \in TaskIds : \E n \in LineEnds(tasks[t].output) : Stdout(t, n)
  \/ \E t \in TaskIds, code \in ExitCodes : ProcExit(t, code)
  \/ \E t \in TaskIds : ProcClose(t)
  \/ \E t \in TaskIds : Finish(t)
  \/ \E t \in TaskIds : TimeoutFire(t)
  \/ \E c \in Channels : StopTask(c)
  \/ \E t \in TaskIds : GraceFire(t)
  \/ Advance(NextDue(tasks), 0)

Spec == Init /\ [][Next]_vars

(***************************************************************************)
(* SpecTask: one task in full, from the prompt to the settled promise      *)
(***************************************************************************)
TaskStep == 500
TaskOutputs == { <<>>, SessionRec("s1") \o DeltaRec("a") \o DeltaRec("b") \o ResultRec("R") }

NextTask ==
  \/ \E c \in Channels : HandleMessage(c, "fix the bug", 1)
  \/ \E t \in TaskIds, out \in TaskOutputs : CallCursorCLI(t, out)
  \/ \E t \in TaskIds : \E n \in LineEnds(tasks[t].output) : Stdout(t, n)
  \/ \E t \in TaskIds, code \in ExitCodes : ProcExit(t, code)
  \/ \E t \in TaskIds : ProcClose(t)
  \/ \E t \in TaskIds : Finish(t)
  \/ \E t \in TaskIds : SinkComplete(t, TRUE)
  \/ \E t \in TaskIds : StreamTimerFire(t)
  \/ \E t \in TaskIds : TimeoutFire(t)
  \/ \E c \in Channels : StopTask(c)
  \/ \E t \in TaskIds : GraceFire(t)
  \/ \E d \in {TaskStep, NextDue(tasks)} : Advance(d, 0)

SpecTask == Init /\ [][NextTask]_vars

(***************************************************************************)
(* SpecStream: the output of one process, cut into chunks at any byte      *)
(***************************************************************************)
StreamLines ==
  { SessionRec("s1"), ConvRec("s2"), DeltaRec("a"), DeltaRec("b"), FullRec("c"),
    ResultRec("R"), NoiseLine }

RECURSIVE SeqsUpTo(_, _)
\* the sequences of at most n elements of S
SeqsUpTo(S, n) ==
  IF n = 0 THEN { <<>> }
  ELSE LET shorter == SeqsUpTo(S, n - 1)
       IN shorter \cup { Append(q, x) : q \in shorter, x \in S }

StreamOutputs == { Flatten(ls) : ls \in SeqsUpTo(StreamLines, MaxLines) }

NextStream ==
  \/ \E c \in Channels : HandleMessage(c, "fix the bug", 1)
  \/ \E t \in TaskIds, out \in StreamOutputs : CallCursorCLI(t, out)
  \/ \E t \in TaskIds : \E n \in 1..Len(tasks[t].output) : Stdout(t, n)
  \/ \E t \in TaskIds, code \in ExitCodes : ProcExit(t, code)
  \/ \E t \in TaskIds : ProcClose(t)
  \/ \E t \in TaskIds : Finish(t)
  \/ \E t \in TaskIds : SinkComplete(t, TRUE)

SpecStream == Init /\ [][NextStream]_vars

(***************************************************************************)
(* SpecThrottle: the card updates of one running task against the clock    *)
(***************************************************************************)
ThrottleStep == 500
ThrottleHorizon == 2 * STREAM_INTERVAL

RECURSIVE Deltas(_)
\* k delta records
Deltas(k) == IF k = 0 THEN <<>> ELSE DeltaRec("a") \o Deltas(k - 1)

ThrottleOutputs == { Deltas(k) : k \in 1..MaxBurst }

NextThrottle ==
  \/ \E c \in Channels : HandleMessage(c, "fix the bug", 1)
  \/ \E t \in TaskIds, out \in ThrottleOutputs : CallCursorCLI(t, out)
  \/ \E t \in TaskIds : \E n \in LineEnds(tasks[t].output) : Stdout(t, n)
  \/ \E t \in TaskIds, ok \in BOOLEAN : SinkComplete(t, ok)
  \/ \E t \in TaskIds : StreamTimerFire(t)
  \/ Advance(ThrottleStep, ThrottleHorizon)

SpecThrottle == Init /\ [][NextThrottle]_vars

(***************************************************************************)
(* SpecSession: the session store over tasks that follow one another and   *)
(* hours of idle time                                                      *)
(***************************************************************************)
SessionStep == 5 * 60 * 60 * 1000

NextSession ==
  \/ \E c \in Channels : HandleMessage(c, "fix the bug", MaxTasks)
  \/ \E t \in TaskIds, out \in OrchOutputs : CallCursorCLI(t, out)
  \/ \E t \in TaskIds : \E n \in LineEnds(tasks[t].output) : Stdout(t, n)
  \/ \E t \in TaskIds : ProcExit(t, "0")
  \/ \E t \in TaskIds : ProcClose(t)
  \/ \E t \in TaskIds : Finish(t)
  \/ \E t \in TaskIds : TimeoutFire(t)
  \/ \E c \in Channels : NewCommand(c)
  \/ Sweep
  \/ Advance(NextDue(tasks), 0)
  \/ Idle(SessionStep)

SpecSession == Init /\ [][NextSession]_vars

(***************************************************************************)
(* SpecStore: the session store of two chats, with the sweep on its        *)
(* interval                                                                *)
(***************************************************************************)
StoreChannels == {"c1", "c2"}
StoreStep == 5 * 60 * 60 * 1000
StorePhase == 2 * 60 * 1000
StoreIds == {"s1", "s2"}

\* the times after which a stored session reaches the TTL
TimesToExpiry == {SESSION_TTL - chatSessions[c].age : c \in DOMAIN chatSessions}

NextStore ==
  \/ \E c \in StoreChannels : GetSessionCall(c)
  \/ \E c \in StoreChannels, id \in StoreIds : SaveSessionCall(c, id)
  \/ \E c \in StoreChannels : NewCommand(c)
  \/ SweepFire
  \/ \E d \in {StoreStep} \cup TimesToExpiry : Pass(d)
  \/ (\E c \in DOMAIN chatSessions : chatSessions[c].age + sweepTimer > SESSION_TTL)
       /\ Pass(sweepTimer)
  \/ chatSessions = <<>> /\ Pass(StorePhase)

SpecStore == Init /\ [][NextStore]_vars

(***************************************************************************)
(* SpecSnapshot: a tree below the work directory, five levels deep, with   *)
(* hidden names, links and directories that cannot be read, and one task   *)
(* that captures it                                                        *)
(***************************************************************************)
MaxEntries == 5
MaxLevels == 5
TopNames == {".h", "a", "b", "node_modules"}
SubNames == {".h", "a"}
Modes == {"rx", "r", ""}

\* paths of up to MaxLevels names: any name at the top, a hidden or a plain name
\* below it, plain names further down
TreePaths ==
  UNION { {p \in [1..n -> TopNames] :
             /\ n >= 2 => p[2] \in SubNames
             /\ \A i \in 3..n : p[i] = "a"} : n \in 1..MaxLevels }

Room == Cardinality(DOMAIN workDir) <= MaxEntries

NextSnapshot ==
  \/ tasks = <<>> /\ Room /\ \E p \in TreePaths : Mkdir(p, "rx")
  \/ tasks = <<>> /\ Room /\ \E p \in TreePaths : Len(p) = 1 /\ Symlink(p)
  \/ tasks = <<>> /\ Room /\ \E p \in TreePaths : WriteFile(p, 1, 1)
  \/ tasks = <<>> /\ \E p \in TreePaths \cup {<<>>}, m \in Modes : Len(p) <= 1 /\ Chmod(p, m)
  \/ \E c \in Channels : HandleMessage(c, "fix the bug", 1)
  \/ \E t \in TaskIds : CallCursorCLI(t, <<>>)

SpecSnapshot == Init /\ [][NextSnapshot]_vars

(***************************************************************************)
(* SpecFiles: one task whose process writes and removes files, the diff of *)
(* the snapshots and the sending of the new files                          *)
(***************************************************************************)
Prompts == {"fix the bug", "send me the report"}
FlatPaths == {<<"a">>, <<"b">>}
FileSizes == {1, MAX_FILE_SIZE, MAX_FILE_SIZE + 1}
FileTimes == {1, 2}

\* files change until the process has closed
Working == \A t \in TaskIds : tasks[t].proc # "closed"

NextFiles ==
  \/ \E c \in Channels, p \in Prompts : HandleMessage(c, p, 1)
  \/ \E t \in TaskIds : CallCursorCLI(t, <<>>)
  \/ Working /\ \E p \in FlatPaths, size \in FileSizes, mtime \in FileTimes : WriteFile(p, size, mtime)
  \/ Working /\ \E p \in FlatPaths : RemoveFile(p)
  \/ \E t \in TaskIds : ProcExit(t, "0")
  \/ \E t \in TaskIds : ProcClose(t)
  \/ \E t \in TaskIds : Finish(t)
  \/ \E t \in TaskIds, uploadOk \in BOOLEAN, sendOk \in BOOLEAN : SendNewFile(t, uploadOk, sendOk)
  \/ \E t \in TaskIds : SendNotice(t)

SpecFiles == Init /\ [][NextFiles]_vars

(***************************************************************************)
(* SpecSpawn: tasks on one chat whose process may fail to start, with      *)
(* /stop and the timeout                                                   *)
(***************************************************************************)
SpawnOutputs == { SessionRec("s1") }

NextSpawn ==
  \/ \E c \in Channels : HandleMessage(c, "fix the bug", MaxTasks)
  \/ \E t \in TaskIds, out \in SpawnOutputs : CallCursorCLI(t, out)
  \/ \E t \in TaskIds : SpawnError(t)
  \/ \E t \in TaskIds : \E n \in LineEnds(tasks[t].output) : Stdout(t, n)
  \/ \E t \in TaskIds : ProcExit(t, "0")
  \/ \E t \in TaskIds : ProcClose(t)
  \/ \E t \in TaskIds : Finish(t)
  \/ \E t \in TaskIds : TimeoutFire(t)
  \/ \E c \in Channels : StopTask(c)
  \/ \E t \in TaskIds : GraceFire(t)
  \/ Advance(NextDue(tasks), 0)

SpecSpawn == Init /\ [][NextSpawn]_vars

(***************************************************************************)
(* SpecLive: one task under the scheduling the platform guarantees.  Timers *)
(* fire and time passes, awaited calls return, the close event follows the *)
(* exit, and a process that was sent SIGKILL exits.  Nothing obliges a     *)
(* process to exit by itself or on SIGTERM, and nobody has to send /stop.  *)
(***************************************************************************)
LiveOutputs == { <<>>, DeltaRec("a") \o DeltaRec("b") }

NextLive ==
  \/ \E c \in Channels : HandleMessage(c, "fix the bug", 1)
  \/ \E t \in TaskIds, out \in LiveOutputs : CallCursorCLI(t, out)
  \/ \E t \in TaskIds : \E n \in LineEnds(tasks[t].output) : Stdout(t, n)
  \/ \E t \in TaskIds, code \in ExitCodes : ProcExit(t, code)
  \/ \E t \in TaskIds : ProcClose(t)
  \/ \E t \in TaskIds : Finish(t)
  \/ \E t \in TaskIds : SinkComplete(t, TRUE)
  \/ \E t \in TaskIds : StreamTimerFire(t)
  \/ \E t \in TaskIds : TimeoutFire(t)
  \/ \E c \in Channels : StopTask(c)
  \/ \E t \in TaskIds : GraceFire(t)
  \/ Advance(NextDue(tasks), 0)

Fairness ==
  /\ WF_vars(\E t \in TaskIds, out \in LiveOutputs : CallCursorCLI(t, out))
  /\ WF_vars(\E t \in TaskIds : "SIGKILL" \in tasks[t].sigs /\ ProcExit(t, "null"))
  /\ WF_vars(\E t \in TaskIds : ProcClose(t))
  /\ WF_vars(\E t \in TaskIds : Finish(t))
  /\ WF_vars(\E t \in TaskIds : SinkComplete(t, TRUE))
  /\ WF_vars(\E t \in TaskIds : StreamTimerFire(t))
  /\ WF_vars(\E t \in TaskIds : TimeoutFire(t))
  /\ WF_vars(\E t \in TaskIds : GraceFire(t))
  /\ WF_vars(Advance(NextDue(tasks), 0))

SpecLive == Init /\ [][NextLive]_vars /\ Fairness

(***************************************************************************)
(* Properties                                                              *)
(***************************************************************************)
\* the close handler of the task has run to its end
Closed(tk) == tk.proc = "closed" /\ ~tk.closeWait

\* the decoded records that carry assistant text
AssistantRecords(decoded) ==
  SelectSeq(decoded, LAMBDA r : r["type"] = "assistant" /\ r["text"] # "")

\* the decoded records that carry a result text
ResultRecords(decoded) ==
  SelectSeq(decoded, LAMBDA r : r["type"] = "result" /\ r["result"] # "")

\* the index of the last record without a delta marker (0: none)
LastFull(recs) ==
  IF \E i \in 1..Len(recs) : recs[i]["timestamp_ms"] = ""
  THEN CHOOSE i \in 1..Len(recs) :
         /\ recs[i]["timestamp_ms"] = ""
         /\ \A j \in (i + 1)..Len(recs) : recs[j]["timestamp_ms"] # ""
  ELSE 0

RECURSIVE Concat(_)
Concat(recs) == IF recs = <<>> THEN "" ELSE Head(recs)["text"] \o Concat(Tail(recs))

\* the text of the last full-text record followed by the deltas after it
Accumulation(recs) ==
  LET k == LastFull(recs)
  IN (IF k = 0 THEN "" ELSE recs[k]["text"]) \o Concat(SubSeq(recs, k + 1, Len(recs)))

RECURSIVE LinesOf(_)
\* the lines the data handler looped over, chunk by chunk
LinesOf(chunks) ==
  IF chunks = <<>> THEN <<>> ELSE ChunkLines(Head(chunks)) \o LinesOf(Tail(chunks))

RECURSIVE Replay(_, _)
\* the task after the records of the given (decodable) lines, and nothing else
Replay(tk, lines) ==
  IF lines = <<>> THEN tk
  ELSE Replay(HandleRecord(tk, JSONParse(Head(lines)).json, 0), Tail(lines))

Texts(log) == [i \in 1..Len(log) |-> log[i].text]

\* C1: for every channel at most one external process started by callCursorCLI is
\* in flight at any instant: a request that arrives while one is running does not
\* spawn a second process.
C1_AtMostOneTask ==
  \A c \in Channels :
    Cardinality({t \in TaskIds : tasks[t].chan = c /\ tasks[t].proc = "running"}) <= 1

\* C2: a task whose timeout timer fired while its process was running never saves
\* a session, neither at the timeout nor when the close event of the killed
\* process arrives.
C2_TimeoutNeverSaves ==
  \A t \in TaskIds : tasks[t].timedOut => tasks[t].saved = ""

\* C3: a stopTask call on a channel with no registered task returns stopped=false
\* and changes no state; on a channel with a registered task it returns
\* stopped=true and the entry is gone from activeTasks when it returns.
C3_StopTask ==
  [][ lastStop' # lastStop =>
        LET c == lastStop'.chan
        IN IF c \in DOMAIN activeTasks
           THEN /\ lastStop'.stopped
                /\ lastStop'.task = activeTasks[c]
                /\ c \notin DOMAIN activeTasks'
           ELSE /\ ~lastStop'.stopped
                /\ tasks' = tasks
                /\ activeTasks' = activeTasks
                /\ chatSessions' = chatSessions ]_vars

\* stopTask has returned stopped=true, the entry is gone and the process still runs
C3_Witness ==
  /\ lastStop.stopped
  /\ lastStop.chan \notin DOMAIN activeTasks
  /\ tasks[lastStop.task].proc = "running"

\* C4: once the grace timer of stopTask has fired, a process that has still not
\* exited has been sent SIGKILL.
C4_GraceEscalates ==
  \A t \in TaskIds :
    (tasks[t].stopped /\ ~tasks[t].grace.pending /\ tasks[t].proc = "running")
      => "SIGKILL" \in tasks[t].sigs

ExpectedOutcome(tk) ==
  LET results == ResultRecords(tk.decoded)
      acc == Accumulation(AssistantRecords(tk.decoded))
  IN IF results # <<>>
     THEN [kind |-> "resolve", value |-> results[Len(results)]["result"]]
     ELSE IF acc # "" THEN [kind |-> "resolve", value |-> acc]
     ELSE IF tk.exitCode = "0" THEN [kind |-> "resolve", value |-> TASK_DONE]
     ELSE [kind |-> "reject", value |-> ExitMessage(tk.exitCode)]

C7_Accumulation ==
  \A t \in TaskIds :
    tasks[t].accumulatedText = Accumulation(AssistantRecords(tasks[t].decoded))

\* a full-text record after a delta: it replaced the accumulation
C7_Witness ==
  \E t \in TaskIds :
    LET recs == AssistantRecords(tasks[t].decoded)
    IN /\ Len(recs) = 2
       /\ recs[1]["timestamp_ms"] # "" /\ recs[2]["timestamp_ms"] = ""
       /\ tasks[t].accumulatedText = "c"

\* C8: whenever the bytes received so far end on a line boundary, the session id,
\* the result text and the accumulation equal those of the same bytes delivered
\* in chunks that end on line boundaries, however the bytes were cut.
C8_ChunkingIndependent ==
  \A t \in TaskIds :
    LET tk == tasks[t]
        all == Flatten(tk.received)
        ref == OnData(NewTask(tk.chan), all, 0)
    IN (all # <<>> /\ all[Len(all)] = NL)
         => /\ tk.newConversationId = ref.newConversationId
            /\ tk.result = ref.result
            /\ tk.accumulatedText = ref.accumulatedText

\* C9: lines that fail to decode are dropped: the session id, the result text, the
\* accumulation and the pushes to the throttle are those of the decodable lines
\* alone, each decodable line was decoded once, and nothing settles the promise
\* while the process runs.
C9_MalformedDropped ==
  \A t \in TaskIds :
    LET tk == tasks[t]
        good == SelectSeq(LinesOf(tk.received), LAMBDA l : JSONParse(l).ok)
        ref == Replay(NewTask(tk.chan), good)
    IN /\ tk.newConversationId = ref.newConversationId
       /\ tk.result = ref.result
       /\ tk.accumulatedText = ref.accumulatedText
       /\ Texts(tk.pushed) = Texts(ref.pushed)
       /\ Len(tk.decoded) = Len(good)
       /\ tk.proc = "running" => tk.outcome = Pending

\* a line that failed to decode, and a later line that was processed
C9_Witness ==
  \E t \in TaskIds :
    LET lines == LinesOf(tasks[t].received)
    IN /\ \E i, j \in 1..Len(lines) :
            i < j /\ ~JSONParse(lines[i]).ok /\ JSONParse(lines[j]).ok
       /\ tasks[t].accumulatedText # ""

\* the pushes so far all fall within one interval of the first push of the task
Burst(tk) ==
  /\ tk.pushed # <<>>
  /\ \A i \in 1..Len(tk.pushed) : tk.pushed[i].at - tk.pushed[1].at < STREAM_INTERVAL

C11_RateLimited ==
  \A t \in TaskIds :
    \A i \in 1..(Len(tasks[t].sunk) - 1) :
      tasks[t].sunk[i + 1].at - tasks[t].sunk[i].at >= STREAM_INTERVAL

Natural(tk) ==
  tk.ownExit /\ ~tk.stopped /\ Closed(tk) /\ tk.outcome.value # TIMEOUT_MESSAGE

C13_SerializedInOrder ==
  \A t \in TaskIds :
    LET tk == tasks[t]
    IN /\ tk.flushed = Texts(tk.sunk) \o (IF tk.chain = <<>> THEN <<>> ELSE Tail(tk.chain))
       /\ tk.chain # <<>> => Head(tk.chain) = tk.sunk[Len(tk.sunk)].text
       /\ \A i \in 1..(Len(tk.sunk) - 1) : tk.sunk[i].at <= tk.sunk[i + 1].at

\* the first sink call failed and the second delivery is in flight
C13_Witness ==
  \E t \in TaskIds :
    /\ tasks[t].sinkFailed
    /\ Len(tasks[t].flushed) = 2 /\ Len(tasks[t].sunk) = 2
    /\ Len(tasks[t].chain) = 1

\* C14: once the task's result has been returned (the promise resolved), every
\* streaming delivery issued for the task has completed, none is scheduled, and
\* none was issued or begun since; the final card update is made only then and
\* carries the result.
C14_DrainedBeforeDone ==
  \A t \in TaskIds :
    LET tk == tasks[t]
    IN /\ tk.outcome.kind = "resolve"
            => /\ tk.chain = <<>>
               /\ ~tk.streamTimer.pending
               /\ Texts(tk.sunk) = tk.flushed
               /\ Len(tk.flushed) = tk.settleMark.flushed
               /\ Len(tk.sunk) = tk.settleMark.sunk
       /\ tk.terminal.kind = "card"
            => tk.outcome = [kind |-> "resolve", value |-> tk.terminal.text]

\* two streaming deliveries were made, then the final card with the result
C14_Witness ==
  \E t \in TaskIds :
    /\ tasks[t].terminal = [kind |-> "card", text |-> "R"]
    /\ Len(tasks[t].sunk) = 2

\* C15: for a task whose timeout timer fired while its process was running and no
\* signal had been sent, from then on SIGTERM has been sent, the outcome is the
\* timeout rejection (no exit-code failure, also after the close of the killed
\* process) and the channel has no entry in activeTasks.
C15_TimeoutOutcome ==
  \A t \in TaskIds :
    tasks[t].timedOut
      => /\ "SIGTERM" \in tasks[t].sigs
         /\ tasks[t].outcome = [kind |-> "reject", value |-> TIMEOUT_MESSAGE]
         /\ \A code \in ExitCodes : TIMEOUT_MESSAGE # ExitMessage(code)
         /\ tasks[t].chan \notin DOMAIN activeTasks

\* the killed process closed with text received: the outcome is still the timeout
C15_Witness ==
  \E t \in TaskIds :
    /\ tasks[t].timedOut /\ Closed(tasks[t])
    /\ tasks[t].accumulatedText # ""
    /\ tasks[t].outcome.value = TIMEOUT_MESSAGE

\* C16: after the timeout failure of a task has been surfaced, no streaming update
\* of that task is issued or begun: the deliveries issued and the sink calls begun
\* stay those of the moment the timeout rejected the promise.
C16_NoUpdateAfterTimeout ==
  \A t \in TaskIds :
    tasks[t].timedOut
      => /\ Len(tasks[t].flushed) = tasks[t].settleMark.flushed
         /\ Len(tasks[t].sunk) = tasks[t].settleMark.sunk

\* C17: when stopTask has acted on a task and its process was still running when
\* the timeout timer fired, the outcome is the timeout rejection.
C17_TimeoutWins ==
  \A t \in TaskIds :
    (tasks[t].stopped /\ tasks[t].firedRunning)
      => tasks[t].outcome = [kind |-> "reject", value |-> TIMEOUT_MESSAGE]

\* C18: every task that is started terminates: once its process runs, eventually
\* the process has exited and closed, the promise is settled and the channel's
\* entry is removed.
C18_EveryTaskTerminates ==
  (Len(tasks) >= 1 /\ tasks[1].proc = "running")
    ~> /\ Len(tasks) >= 1
       /\ tasks[1].proc = "closed"
       /\ tasks[1].outcome.kind # "pending"
       /\ tasks[1].chan \notin DOMAIN activeTasks

\* C19: after stopTask has returned for a task, no streaming update of that task
\* is issued: the deliveries issued stay those of the moment stopTask returned.
C19_NoUpdateAfterStop ==
  \A t \in TaskIds :
    tasks[t].stopped => Len(tasks[t].flushed) = tasks[t].stopMark.flushed

\* C20: getSession on a store that holds an expired session of the channel (now -
\* lastActiveTime > TTL) returns none and deletes the entry, so that the next get
\* returns none too; on a session not expired it returns the stored session id
\* unchanged and sets lastActiveTime to now; with no session it returns none.
C20_GetSession ==
  \A c \in Channels :
    LET g == GetSession(chatSessions, c)
    IN IF c \notin DOMAIN chatSessions
       THEN g.id = "" /\ g.store = chatSessions
       ELSE IF chatSessions[c].age > SESSION_TTL
            THEN /\ g.id = ""
                 /\ c \notin DOMAIN g.store
                 /\ GetSession(g.store, c).id = ""
            ELSE /\ g.id = chatSessions[c].conversationId
                 /\ g.id # ""
                 /\ g.store[c] = [conversationId |-> chatSessions[c].conversationId, age |-> 0]

\* the store holds a session saved more than the TTL ago when a message arrives
C20_Witness ==
  /\ "c1" \in DOMAIN chatSessions
  /\ chatSessions["c1"].age > SESSION_TTL
  /\ Len(tasks) = 1
  /\ tasks[1].saved = "s1"

\* the store after d more milliseconds
Aged(store, d) == [c \in DOMAIN store |-> [store[c] EXCEPT !.age = @ + d]]

\* the entries of the channels other than c are the same in both stores
SameElsewhere(before, after, c) ==
  \A o \in StoreChannels \ {c} :
    /\ o \in DOMAIN after <=> o \in DOMAIN before
    /\ o \in DOMAIN after => after[o] = before[o]

\* C21: saveSession(channel, id) is an upsert.  Afterwards the store holds one entry
\* for the channel, with that id (whatever id it held before) and lastActiveTime = now;
\* a getSession on the channel up to the TTL later returns that id; the entries of the
\* other channels are unchanged.
C21_SaveSession ==
  \A c \in StoreChannels, id \in StoreIds :
    LET s == SaveSession(chatSessions, c, id)
    IN /\ c \in DOMAIN s
       /\ s[c] = [conversationId |-> id, age |-> 0]
       /\ \A d \in {0, StorePhase, StoreStep, SESSION_TTL} : GetSession(Aged(s, d), c).id = id
       /\ SameElsewhere(chatSessions, s, c)

\* a channel whose session was saved again with another id, while the other channel
\* holds an older session
C21_Witness ==
  /\ DOMAIN chatSessions = StoreChannels
  /\ chatSessions["c1"] = [conversationId |-> "s2", age |-> 0]
  /\ chatSessions["c2"].conversationId = "s1"
  /\ chatSessions["c2"].age = StoreStep

\* C22: clearSession(channel) removes the channel's entry if there is one and returns
\* true exactly when there was one; a second clear with no save in between returns
\* false; the entries of the other channels are unchanged.
C22_ClearSession ==
  \A c \in StoreChannels :
    LET r == ClearSession(chatSessions, c)
    IN /\ r.cleared = (c \in DOMAIN chatSessions)
       /\ c \notin DOMAIN r.store
       /\ ~ClearSession(r.store, c).cleared
       /\ ClearSession(r.store, c).store = r.store
       /\ SameElsewhere(chatSessions, r.store, c)

\* /new has just cleared the session of one channel and the other channel has one
C22_Witness ==
  /\ lastNew.chan = "c1" /\ lastNew.cleared
  /\ DOMAIN chatSessions = {"c2"}

\* C23: the sweep removes every session whose lastActiveTime is older than the TTL and
\* leaves the others unchanged, whatever get and save do; so no session stays in the
\* store for more than one sweep period after it expired.
C23_Sweep ==
  /\ LET s == SweepSessions(chatSessions)
     IN \A c \in StoreChannels :
          IF c \in DOMAIN chatSessions /\ chatSessions[c].age <= SESSION_TTL
          THEN c \in DOMAIN s /\ s[c] = chatSessions[c]
          ELSE c \notin DOMAIN s
  /\ \A c \in DOMAIN chatSessions : chatSessions[c].age <= SESSION_TTL + SWEEP_INTERVAL

\* the sweep is due while one session has been expired for a whole period and the
\* other has not expired
C23_Witness ==
  /\ sweepTimer = 0
  /\ DOMAIN chatSessions = StoreChannels
  /\ chatSessions["c1"].age = SESSION_TTL + SWEEP_INTERVAL
  /\ chatSessions["c2"].age <= SESSION_TTL

\* C24: a session is stored only by a successful completion that yielded a session id.
\* A task that has saved a session is one whose process exited on its own, whose
\* outcome is a success and in whose stream the saved id was observed; a task that
\* ends in failure has stored none.
C24_SavedOnlyOnSuccess ==
  \A t \in TaskIds :
    LET tk == tasks[t]
    IN tk.saved # "" =>
         /\ tk.ownExit
         /\ tk.outcome.kind = "resolve"
         /\ tk.saved = tk.newConversationId

\* C25: a task is launched with the resume parameter exactly when the store holds a
\* session of its channel that has not expired at the launch, and the parameter is the
\* stored session id; with no such session the process is launched without it.
C25_Resume ==
  [][ \A t \in TaskIds :
        (tasks[t].pc = "card" /\ tasks'[t].pc = "await") =>
          LET c == tasks[t].chan
              held == c \in DOMAIN chatSessions /\ chatSessions[c].age <= SESSION_TTL
          IN tasks'[t].resume = IF held THEN chatSessions[c].conversationId ELSE "" ]_vars

\* the first task was launched with an empty store and saved s1; the second one runs
\* with s1 as its resume parameter
C25_Witness ==
  /\ Len(tasks) = 2
  /\ tasks[1].saved = "s1"
  /\ tasks[1].resume = ""
  /\ tasks[2].resume = "s1"
  /\ tasks[2].proc = "running"

\* the regular files of fs whose directory is at most MAX_DEPTH levels below the
\* root, with no hidden or node_modules name on the path, that can be reached
Recordable(fs) ==
  {p \in DOMAIN fs :
     /\ fs[p].kind = "file"
     /\ Len(p) - 1 <= MAX_DEPTH
     /\ \A i \in 1..Len(p) : ~StartsWithDot(p[i]) /\ p[i] # "node_modules"
     /\ \A a \in Ancestors(p) : fs[a].kind = "dir" /\ fs[a].mode = "rx"}

\* C27: getFileSnapshot records exactly the regular files at most 3 directory levels
\* below the root that have no path component starting with '.' or named
\* node_modules, each once with its size and modified-time; what cannot be read is
\* skipped and everything else is still recorded.
C27_GetFileSnapshot ==
  LET snapshot == GetFileSnapshot(workDir)
  IN /\ {snapshot[i].path : i \in 1..Len(snapshot)} = Recordable(workDir)
     /\ Len(snapshot) = Cardinality(Recordable(workDir))
     /\ \A i \in 1..Len(snapshot) :
          /\ snapshot[i].size = workDir[snapshot[i].path].size
          /\ snapshot[i].mtime = workDir[snapshot[i].path].mtime
     /\ \A t \in TaskIds : tasks[t].pc = "await" => tasks[t].beforeSnapshot = snapshot

\* a task has captured a tree with a file in a subdirectory, next to a hidden file
\* and a directory that cannot be searched and holds a file
C27_Witness ==
  /\ Len(tasks) = 1
  /\ tasks[1].pc = "await"
  /\ Len(tasks[1].beforeSnapshot) = 1
  /\ Has(tasks[1].beforeSnapshot, <<"a", "a">>)
  /\ <<".h">> \in DOMAIN workDir
  /\ workDir[<<".h">>].kind = "file"
  /\ <<"b", "a">> \in DOMAIN workDir
  /\ workDir[<<"b">>].mode = "r"
  /\ workDir[<<"b", "a">>].kind = "file"

PathsOf(files) == {files[i].path : i \in 1..Len(files)}

\* C26: compareSnapshots(before, after) reports as added exactly the paths present only
\* in after, and as changed exactly the paths present in both whose size or
\* modified-time differs, in either direction; a path present only in before is in
\* neither list and no path is in both lists.
C26_CompareSnapshots ==
  \A t \in TaskIds :
    LET tk == tasks[t]
        before == tk.beforeSnapshot
        after == tk.afterSnapshot
    IN tk.terminal.kind = "card" =>
         /\ PathsOf(tk.newFiles) = {p \in PathsOf(after) : ~Has(before, p)}
         /\ PathsOf(tk.modifiedFiles) =
              {p \in PathsOf(after) :
                 /\ Has(before, p)
                 /\ \/ Get(after, p).size # Get(before, p).size
                    \/ Get(after, p).mtime # Get(before, p).mtime}
         /\ PathsOf(tk.newFiles) \cap PathsOf(tk.modifiedFiles) = {}
         /\ \A p \in PathsOf(before) \ PathsOf(after) :
              p \notin PathsOf(tk.newFiles) \cup PathsOf(tk.modifiedFiles)

\* C28: a file larger than 30 MB is never uploaded.  No upload and no file message
\* carries more than MAX_FILE_SIZE bytes, and a turn of the auto-send loop that meets
\* such a file counts it as failed with the size error and issues nothing.
C28_LargeFileRejected ==
  [][ \A t \in TaskIds :
        LET tk == tasks[t]
            i == tk.successCount + Len(tk.failedFiles) + 1
        IN /\ \A k \in 1..Len(tasks'[t].uploads) : tasks'[t].uploads[k].size <= MAX_FILE_SIZE
           /\ \A k \in 1..Len(tasks'[t].fileMessages) :
                tasks'[t].fileMessages[k].size <= MAX_FILE_SIZE
           /\ (/\ tk.pc = "send"
               /\ tasks'[t].successCount + Len(tasks'[t].failedFiles) = i
               /\ ToSend(tk)[i].path \in DOMAIN workDir
               /\ workDir[ToSend(tk)[i].path].size > MAX_FILE_SIZE)
              => /\ tasks'[t].failedFiles =
                      Append(tk.failedFiles, [name |-> ToSend(tk)[i].path, error |-> "TOO_LARGE"])
                 /\ tasks'[t].successCount = tk.successCount
                 /\ tasks'[t].uploads = tk.uploads
                 /\ tasks'[t].fileMessages = tk.fileMessages ]_vars

\* of two new files the one of exactly 30 MB was sent and the larger one was counted
\* as failed
C28_Witness ==
  /\ Len(tasks) = 1
  /\ tasks[1].pc = "done"
  /\ tasks[1].notice = "SENT_SOME"
  /\ tasks[1].fileMessages = <<[path |-> <<"a">>, size |-> MAX_FILE_SIZE]>>
  /\ tasks[1].failedFiles = <<[name |-> <<"b">>, error |-> "TOO_LARGE"]>>
  /\ workDir[<<"b">>].size = MAX_FILE_SIZE + 1

SpawnFailed(tk) == tk.exitCode = SPAWN_CODE

\* C29: when the process cannot be started the caller gets the spawn error, the
\* attempt leaves no entry in activeTasks (a channel with no other task has none, so
\* no cancel ever acts on the attempt and /stop reports no task), and the attempt
\* saves no session.
C29_SpawnError ==
  /\ \A t \in TaskIds :
       SpawnFailed(tasks[t]) =>
         /\ tasks[t].outcome = [kind |-> "reject", value |-> SPAWN_ERROR]
         /\ tasks[t].pc = "done" => tasks[t].terminal = [kind |-> "error", text |-> SPAWN_ERROR]
         /\ tasks[t].chan \in DOMAIN activeTasks => activeTasks[tasks[t].chan] # t
         /\ ~tasks[t].stopped
         /\ tasks[t].saved = ""
  /\ \A c \in Channels :
       (\A t \in TaskIds : tasks[t].chan = c => SpawnFailed(tasks[t]) \/ tasks[t].pc = "card")
         => c \notin DOMAIN activeTasks
  /\ (lastStop.stopped => ~SpawnFailed(tasks[lastStop.task]))

\* the only task failed to start, the error was reported, and a /stop that followed
\* found no task
C29_Witness ==
  /\ Len(tasks) = 1
  /\ SpawnFailed(tasks[1])
  /\ tasks[1].pc = "done"
  /\ tasks[1].proc = "closed"
  /\ lastStop = [chan |-> "c1", stopped |-> FALSE, task |-> 0]

\* what handleMessage sends for a rejection that is not the cancellation
ErrorReported(tk) == tk.terminal = [kind |-> "error", text |-> tk.outcome.value]
\* handleMessage returned without an error message and without a final card
NothingReported(tk) == tk.terminal = [kind |-> "none", text |-> ""]

MESSAGE_CACHE_TTL == 5 * 60 * 1000

MessageIds == {"m1", "m2"}
MaxDeliveries == 3      \* deliveries of one message id in one behaviour
DedupeStep == 120000    \* the step of time between deliveries (SpecDedupe)

\* the longest time since a processed delivery the observer tells apart
AgeCap == MESSAGE_CACHE_TTL + DedupeStep

NoDelivery == [total |-> 0, processed |-> 0, age |-> 0]
DeliveriesOf(messageId) ==
  IF messageId \in DOMAIN deliveries THEN deliveries[messageId] ELSE NoDelivery

\* isMessageProcessed where a replay restarts the delete timer
IsMessageProcessedRefresh(cache, messageId) ==
  [processed |-> messageId \in DOMAIN cache,
   cache |-> With(cache, messageId, MESSAGE_CACHE_TTL)]

\* isMessageProcessed: the answer and the cache afterwards; an added id carries the
\* time left on its delete timer
IsMessageProcessed(cache, messageId) ==
  IF messageId \in DOMAIN cache
  THEN [processed |-> TRUE, cache |-> cache]
  ELSE [processed |-> FALSE, cache |-> With(cache, messageId, MESSAGE_CACHE_TTL)]

\* handleMessage up to its dedupe test, for a message created after the service
\* started; a message that passes goes on as HandleMessage, StopTask or NewCommand
Deliver(messageId) ==
  /\ DeliveriesOf(messageId).total < MaxDeliveries
  /\ LET r == IsMessageProcessed(processedMessages, messageId)
         d == DeliveriesOf(messageId)
     IN /\ processedMessages' = r.cache
        /\ deliveries' = With(deliveries, messageId,
                              [total |-> d.total + 1,
                               processed |-> IF r.processed THEN d.processed ELSE d.processed + 1,
                               age |-> IF r.processed THEN d.age ELSE 0])
  /\ UNCHANGED <<clock, tasks, activeTasks, chatSessions, lastStop, lastNew, sweepTimer,
                 workDir, currentActiveChatId, lastApi>>

\* the delete timer of a message id fires
ExpireMessage(messageId) ==
  /\ messageId \in DOMAIN processedMessages
  /\ processedMessages[messageId] = 0
  /\ processedMessages' = Without(processedMessages, messageId)
  /\ UNCHANGED <<clock, tasks, activeTasks, chatSessions, lastStop, lastNew, sweepTimer,
                 workDir, deliveries, currentActiveChatId, lastApi>>

\* d of time passes, no delete timer overdue
Wait(d) ==
  /\ d > 0
  /\ \A m \in DOMAIN processedMessages : d <= processedMessages[m]
  /\ \E m \in DOMAIN deliveries : deliveries[m].age < AgeCap
  /\ processedMessages' = [m \in DOMAIN processedMessages |-> processedMessages[m] - d]
  /\ deliveries' = [m \in DOMAIN deliveries |->
                      [deliveries[m] EXCEPT !.age = Min(@ + d, AgeCap)]]
  /\ clock' = clock + d
  /\ UNCHANGED <<tasks, activeTasks, chatSessions, lastStop, lastNew, sweepTimer,
                 workDir, currentActiveChatId, lastApi>>

NextDedupe ==
  \/ \E m \in MessageIds : Deliver(m)
  \/ \E m \in MessageIds : ExpireMessage(m)
  \/ \E d \in {DedupeStep} \cup {processedMessages[m] : m \in DOMAIN processedMessages} : Wait(d)

SpecDedupe == Init /\ [][NextDedupe]_vars

\* a step that delivers message id m, and whether it processed the message
Delivered(m) == DeliveriesOf(m).total' = DeliveriesOf(m).total + 1
Processed(m) == DeliveriesOf(m).processed' = DeliveriesOf(m).processed + 1
Skipped(m) == DeliveriesOf(m).processed' = DeliveriesOf(m).processed

\* C31: of the deliveries of one message id, a delivery less than the TTL after the
\* last processed one is skipped, the first delivery and a delivery more than the TTL
\* after the last processed one are processed, and an id stays in the cache no longer
\* than the TTL after the delivery that put it there.
C31_Dedupe ==
  [][\A m \in MessageIds :
       /\ Delivered(m) =>
            /\ Processed(m) \/ Skipped(m)
            /\ (DeliveriesOf(m).processed > 0 /\ DeliveriesOf(m).age < MESSAGE_CACHE_TTL)
                  => Skipped(m)
            /\ (DeliveriesOf(m).processed = 0 \/ DeliveriesOf(m).age > MESSAGE_CACHE_TTL)
                  => Processed(m)
       /\ m \in DOMAIN processedMessages' =>
            /\ DeliveriesOf(m).processed' > 0
            /\ DeliveriesOf(m).age' + processedMessages'[m] = MESSAGE_CACHE_TTL
       /\ (DeliveriesOf(m).processed' > 0 /\ DeliveriesOf(m).age' < MESSAGE_CACHE_TTL)
            => m \in DOMAIN processedMessages']_vars

\* a message processed, a replay of it skipped, and a delivery after the TTL processed
C31_Witness ==
  \E m \in MessageIds :
    /\ DeliveriesOf(m).total = 3
    /\ DeliveriesOf(m).processed = 2
    /\ m \in DOMAIN processedMessages

(***************************************************************************)
(* Two chats at once                                                       *)
(***************************************************************************)
PairOutputs == { SessionRec("s1") }

\* the chats the messages come from, in the order of arrival
PairOrder == <<"c1", "c2">>

\* a process or timer event of a task of chat a (the kill that follows a /stop after
\* STOP_GRACE and the reporting of the outcome by handleMessage are left to Spec)
TaskEventOn(a) ==
  \E t \in TaskIds :
    /\ tasks[t].chan = a
    /\ \/ \E out \in PairOutputs : CallCursorCLI(t, out)
       \/ \E n \in LineEnds(tasks[t].output) : Stdout(t, n)
       \/ ProcExit(t, "0")
       \/ ProcClose(t)
       \/ TimeoutFire(t)

\* the operations on chat a: its messages and the events of its tasks
OperationOn(a) ==
  \/ Len(tasks) < Len(PairOrder) /\ a = PairOrder[Len(tasks) + 1]
       /\ HandleMessage(a, "fix the bug", Len(PairOrder))
  \/ StopTask(a)
  \/ NewCommand(a)
  \/ TaskEventOn(a)

NextPair ==
  \/ \E a \in StoreChannels : OperationOn(a)
  \/ Advance(NextDue(tasks), 0)

SpecPair == Init /\ [][NextPair]_vars

\* what chat b has: its tasks (process, parse state, streamed output, timers), its
\* entry in activeTasks and its stored session
TasksOf(b) == [t \in {x \in TaskIds : tasks[x].chan = b} |-> tasks[t]]
EntryOf(map, b) == IF b \in DOMAIN map THEN <<map[b]>> ELSE <<>>
ChannelState(b) == <<TasksOf(b), EntryOf(activeTasks, b), EntryOf(chatSessions, b)>>

\* C32: an operation on chat a (a prompt, /stop, /new, a launch, output, exit, close
\* or timeout of one of its tasks) leaves the tasks, the activeTasks entry
\* and the stored session of every other chat b as they were.
C32_ChannelsIndependent ==
  [][\A a \in StoreChannels : \A b \in StoreChannels \ {a} :
       OperationOn(a) => ChannelState(b)' = ChannelState(b)]_vars

\* tasks of two chats in flight at once, each registered, after a /stop on one of the
\* chats replaced nothing of the other
C32_Witness ==
  \E t \in TaskIds : \E u \in TaskIds :
    /\ tasks[t].chan # tasks[u].chan
    /\ tasks[t].stopped /\ tasks[t].proc = "running"
    /\ tasks[u].proc = "running" /\ ~tasks[u].stopped
    /\ tasks[u].chan \in DOMAIN activeTasks /\ activeTasks[tasks[u].chan] = u
    /\ tasks[u].newConversationId = "s1"

(***************************************************************************)
(* SpecDelivery: up to six files written at the top of the work directory  *)
(* while one task runs, and the sending of the new ones                    *)
(***************************************************************************)
ManyPaths == {<<"a">>, <<"b">>, <<"c">>, <<"d">>, <<"e">>, <<"f">>}

NextDelivery ==
  \/ \E c \in Channels, p \in Prompts : HandleMessage(c, p, 1)
  \/ \E t \in TaskIds : CallCursorCLI(t, <<>>)
  \/ Working /\ \E p \in ManyPaths : WriteFile(p, 1, 1)
  \/ \E t \in TaskIds : ProcExit(t, "0")
  \/ \E t \in TaskIds : ProcClose(t)
  \/ \E t \in TaskIds : Finish(t)
  \/ \E t \in TaskIds, uploadOk \in BOOLEAN : SendNewFile(t, uploadOk, TRUE)
  \/ \E t \in TaskIds : SendNotice(t)

SpecDelivery == Init /\ [][NextDelivery]_vars

\* the files created between the two captures of a task
CreatedDuring(tk) == PathsOf(tk.afterSnapshot) \ PathsOf(tk.beforeSnapshot)
\* the files the task sent to the chat, and those it reported as failed
SentBy(tk) == PathsOf(tk.fileMessages)
FailedBy(tk) == {tk.failedFiles[i].name : i \in 1..Len(tk.failedFiles)}
Completed(tk) == tk.pc = "done" /\ tk.outcome.kind = "resolve"

\* C33: when a task has completed and its prompt has a trigger keyword, every file
\* created during the task was sent to the chat or its sending failed; when the prompt
\* has no keyword nothing is uploaded and the notice that lists the new files is sent.
C33_AutoDelivery ==
  \A t \in TaskIds :
    LET tk == tasks[t]
    IN Completed(tk) =>
         IF WantsSendFile(tk.prompt)
         THEN CreatedDuring(tk) = SentBy(tk) \cup FailedBy(tk)
         ELSE /\ tk.uploads = <<>> /\ tk.fileMessages = <<>>
              /\ (CreatedDuring(tk) # {}) = (tk.notice = "NEW_FILES")

\* C33 amended: with a trigger keyword the first five of the files created during the
\* task, in the order of the snapshot, are sent or fail, no other file is uploaded, and
\* when a file was sent the closing message reports the number of the files beyond
\* five as not sent; with no keyword nothing is uploaded and the notice that lists
\* the new files is sent.
C33_AutoDeliveryFirstFive ==
  \A t \in TaskIds :
    LET tk == tasks[t]
        first == SubSeq(tk.newFiles, 1, Min(5, Len(tk.newFiles)))
    IN Completed(tk) =>
         /\ PathsOf(tk.newFiles) = CreatedDuring(tk)
         /\ IF WantsSendFile(tk.prompt)
            THEN /\ SentBy(tk) \cup FailedBy(tk) = PathsOf(first)
                 /\ PathsOf(tk.uploads) \subseteq PathsOf(first)
                 /\ Len(tk.fileMessages) = tk.successCount
                 /\ tk.successCount > 0 => tk.unsent = Len(tk.newFiles) - Len(first)
            ELSE /\ tk.uploads = <<>> /\ tk.fileMessages = <<>>
                 /\ (CreatedDuring(tk) # {}) = (tk.notice = "NEW_FILES")

\* six files created during a task whose prompt asks for them: five sent, one reported
\* as not sent
C33_Witness ==
  \E t \in TaskIds :
    /\ Completed(tasks[t])
    /\ WantsSendFile(tasks[t].prompt)
    /\ Len(tasks[t].newFiles) = 6
    /\ tasks[t].successCount = 5
    /\ tasks[t].unsent = 1
    /\ <<"f">> \notin SentBy(tasks[t])

\* the duration the timeout error names: '命令执行超时（20分钟）'
TIMEOUT_MESSAGE_MINUTES == 20

\* a step that launches task t, and one in which its promise is rejected for the timeout
Launches(t) == tasks[t].pc = "card" /\ tasks'[t].pc = "await"
ReportsTimeout(t) ==
  tasks[t].outcome.kind = "pending" /\ tasks'[t].outcome.value = TIMEOUT_MESSAGE

\* C34: with CURSOR_TIMEOUT not configured every launch arms the timeout timer with
\* 300000 ms, and the timeout error names the delay the timer was armed with.
C34_DefaultTimeout ==
  [][\A t \in DOMAIN tasks :
       /\ Launches(t) => tasks'[t].timeout = SetTimer(300000, "")
       /\ ReportsTimeout(t) => TIMEOUT_MESSAGE_MINUTES * 60 * 1000 = ConfigTimeout]_vars

(***************************************************************************)
(* SpecIds: the records of one process that carry a session identifier     *)
(***************************************************************************)
MaxIdLines == 3         \* lines in the output of one process (SpecIds)

BothRec(conv, sess) == Encode(<< <<"conversation_id", conv>>, <<"session_id", sess>> >>)

IdLines ==
  { SessionRec("s1"), SessionRec("s2"), ConvRec("k1"), ConvRec("k2"), BothRec("k3", "s3") }

IdOutputs == { Flatten(ls) : ls \in SeqsUpTo(IdLines, MaxIdLines) }

NextIds ==
  \/ \E c \in Channels : HandleMessage(c, "fix the bug", 1)
  \/ \E t \in TaskIds, out \in IdOutputs : CallCursorCLI(t, out)
  \/ \E t \in TaskIds : \E n \in LineEnds(tasks[t].output) : Stdout(t, n)
  \/ \E t \in TaskIds : ProcExit(t, "0")
  \/ \E t \in TaskIds : ProcClose(t)
  \/ \E t \in TaskIds : Finish(t)

SpecIds == Init /\ [][NextIds]_vars

\* the decoded records that carry an identifier, and the identifier of one of them
\* (the conversation id when it carries both)
IdRecords(decoded) ==
  SelectSeq(decoded, LAMBDA r : r["conversation_id"] # "" \/ r["session_id"] # "")
ConvRecords(decoded) == SelectSeq(decoded, LAMBDA r : r["conversation_id"] # "")
SessRecords(decoded) == SelectSeq(decoded, LAMBDA r : r["session_id"] # "")
IdOf(r) == IF r["conversation_id"] # "" THEN r["conversation_id"] ELSE r["session_id"]

\* C35: once the process has closed, the session id held is the identifier of the
\* last record that carried one (none when no record did).
C35_LastIdentifier ==
  \A t \in TaskIds :
    LET ids == IdRecords(tasks[t].decoded)
    IN Closed(tasks[t]) =>
         tasks[t].newConversationId = IF ids = <<>> THEN "" ELSE IdOf(ids[Len(ids)])

\* C35 amended: once the process has closed, the session id held is the conversation_id
\* of the last record that carried one, and when no record carried a conversation_id
\* it is the session_id of the first record that carried one (none when no record did).
C35_LastConversationFirstSession ==
  \A t \in TaskIds :
    LET convs == ConvRecords(tasks[t].decoded)
        sess == SessRecords(tasks[t].decoded)
    IN Closed(tasks[t]) =>
         tasks[t].newConversationId =
           IF convs # <<>> THEN convs[Len(convs)]["conversation_id"]
           ELSE IF sess # <<>> THEN sess[1]["session_id"]
           ELSE ""

\* a process that printed two conversation ids and then a session id: the second
\* conversation id is held
C35_Witness ==
  \E t \in TaskIds :
    /\ Closed(tasks[t])
    /\ Len(ConvRecords(tasks[t].decoded)) = 2
    /\ Len(IdRecords(tasks[t].decoded)) = 3
    /\ IdOf(tasks[t].decoded[3]) = "s1"
    /\ tasks[t].newConversationId = "k2"

\* a step in which the close event of task t is handled
Closes(t) == tasks[t].proc = "exited" /\ tasks'[t].proc = "closed"
\* task u is the one registered for its chat
Registered(map, tks, u) == tks[u].chan \in DOMAIN map /\ map[tks[u].chan] = u

\* C36: when the close event of a cancelled task is handled while another task is the
\* one registered for the chat, that task stays registered.
C36_RemovesOwnEntry ==
  [][\A t \in DOMAIN tasks : \A u \in DOMAIN tasks \ {t} :
       (tasks[t].stopped /\ Closes(t) /\ Registered(activeTasks, tasks, u))
          => Registered(activeTasks', tasks', u)]_vars

\* a step in which the timeout timer of task t fires
TimeoutFires(t) == Due(tasks[t].timeout) /\ ~tasks'[t].timeout.pending

\* C37: when the timeout timer of a task fires after the task's process exited on its
\* own (no signal was ever sent to it) and closed, the step sends no signal and leaves
\* activeTasks as it was.
C37_TimerInert ==
  [][\A t \in DOMAIN tasks :
       (TimeoutFires(t) /\ tasks[t].proc = "closed" /\ ~tasks[t].killed)
          => /\ tasks'[t].sigs = tasks[t].sigs
             /\ activeTasks' = activeTasks]_vars

\* the tasks of chat c launched so far
LaunchedOn(c) == {t \in TaskIds : tasks[t].chan = c /\ tasks[t].pc # "card"}

\* C38: the first task launched for a chat after a /new of that chat carries no resume
\* parameter, also when a task of the chat was running at the /new and completed
\* after it.
C38_NewSessionTakesEffect ==
  [][\A t \in DOMAIN tasks :
       (Launches(t) /\ lastNew.chan = tasks[t].chan
          /\ Cardinality(LaunchedOn(tasks[t].chan)) = lastNew.launched)
          => tasks'[t].resume = ""]_vars

(***************************************************************************)
(* The file API: POST /send-file, called by the agent process of a task    *)
(***************************************************************************)
\* the request handler of POST /send-file for a body with a file_path; from is the
\* task whose agent process sends the request (0: a request from no task's process)
PostSendFile(from, filePath, uploadOk) ==
  /\ from # 0 => from \in TaskIds /\ tasks[from].proc = "running"
  /\ lastApi' =
       IF currentActiveChatId = ""
       THEN [task |-> from, status |-> 400, chat |-> ""]
       ELSE IF SendLocalFile(workDir, filePath, uploadOk, TRUE).ok
            THEN [task |-> from, status |-> 200, chat |-> currentActiveChatId]
            ELSE [task |-> from, status |-> 500, chat |-> ""]
  /\ UNCHANGED <<clock, tasks, activeTasks, chatSessions, lastStop, lastNew, sweepTimer,
                 workDir, processedMessages, deliveries, currentActiveChatId>>

NextApi ==
  \/ \E a \in StoreChannels :
       /\ Len(tasks) < Len(PairOrder) /\ a = PairOrder[Len(tasks) + 1]
       /\ HandleMessage(a, "fix the bug", Len(PairOrder))
  \/ \E t \in TaskIds : CallCursorCLI(t, <<>>)
  \/ Working /\ WriteFile(<<"a">>, 1, 1)
  \/ \E t \in TaskIds : ProcExit(t, "0")
  \/ \E t \in TaskIds : ProcClose(t)
  \/ \E t \in TaskIds : Finish(t)
  \/ \E from \in {0} \cup TaskIds, uploadOk \in BOOLEAN : PostSendFile(from, <<"a">>, uploadOk)

SpecApi == Init /\ [][NextApi]_vars

\* a task between its launch and the report of its outcome
InFlight(tk) == tk.pc = "await"

\* C39: a send-file request from the agent process of a task that is answered with
\* success has delivered the file to the chat of that task, and a request handled
\* while no task is in flight is rejected with status 400.
C39_RightChat ==
  [][lastApi' # lastApi =>
       /\ (lastApi'.task # 0 /\ lastApi'.status = 200)
            => lastApi'.chat = tasks[lastApi'.task].chan
       /\ (\A t \in TaskIds : ~InFlight(tasks[t])) => lastApi'.status = 400]_vars

\* what the stdout handler has parsed so far
ParseState(tk) == <<tk.newConversationId, tk.result, tk.accumulatedText>>
\* the parse state the decodable lines received give, whatever the sink did
ParsedFrom(tk) ==
  ParseState(Replay(NewTask(tk.chan),
                    SelectSeq(LinesOf(tk.received), LAMBDA l : JSONParse(l).ok)))

\* C40: after every step, whatever deliveries to the sink are in progress or queued,
\* the parse state is the one the lines received so far give; and a task that was not cancelled and whose close handler waits for the sink
\* settles with the outcome its records and exit code give, however long the sink
\* takes.
C40_SinkNeverStalls ==
  [][\A t \in DOMAIN tasks :
       /\ ParseState(tasks'[t]) = ParsedFrom(tasks'[t])
       /\ (tasks[t].closeWait /\ ~tasks[t].stopped
             /\ tasks[t].outcome.kind = "pending" /\ tasks'[t].outcome.kind # "pending")
            => tasks'[t].outcome = ExpectedOutcome(tasks'[t])]_vars

====
